---- MODULE Spec2Model ----
(***************************************************************************)
(* Block encoding, decoding and validation of astreum                      *)
(* (src/src/astreum/_consensus/block.py) over the content-addressed atom   *)
(* store.                                                                  *)
(*                                                                         *)
(* Values.  A Python bytes object is [k |-> "bytes", v |-> <<b1, ...>>];   *)
(* a 32-byte blake3 digest is [k |-> "digest", of |-> <preimage>], so the  *)
(* hash is an injective constructor; an Ed25519 signature is               *)
(* [k |-> "sig", key, msg].  Python None is None for Optional[bytes] and   *)
(* NoneInt for Optional[int] fields (integers of the program are >= 0).    *)
(***************************************************************************)
EXTENDS Integers, Sequences, FiniteSets, TLC

VARIABLES block, storage, last

vars == <<block, storage, last>>

-----------------------------------------------------------------------------
(* Bounds of the model *)

MaxTimestamp == 1

MaxNumber == 1

-----------------------------------------------------------------------------
(* Byte values *)

None == [k |-> "None"]

NoneInt == -1

Bytes(s) == [k |-> "bytes", v |-> s]

EMPTY == Bytes(<<>>)

\* b"\x00" * 32, kept as one symbol
ZERO32 == [k |-> "zero32"]

\* blake3(...).digest() of a concatenation of parts, an injective 32-byte
\* digest
Digest(parts) == [k |-> "digest", of |-> parts]

\* hash_bytes: blake3(b).digest()
hash_bytes(b) == Digest(<<b>>)

\* len(b) of a bytes value
BLen(b) == IF b.k = "bytes" THEN Len(b.v) ELSE IF b.k = "sig" THEN 64 ELSE 32

\* Python truthiness of an Optional[bytes]: None and b"" are falsy
Truthy(b) == b # None /\ b # EMPTY

\* Python `a or b` on Optional[bytes]
Or(a, b) == IF Truthy(a) THEN a ELSE b

\* int(x or 0) on an Optional[int]
IntOr0(n) == IF n = NoneInt THEN 0 ELSE n

RECURSIVE LittleEndian(_, _)
\* n.to_bytes(width, "little")
LittleEndian(n, width) ==
    IF width = 0 THEN <<>>
    ELSE <<n % 256>> \o LittleEndian(n \div 256, width - 1)

\* u64_le: the 8 little-endian bytes of n
u64_le(n) == LittleEndian(n, 8)

-----------------------------------------------------------------------------
(* Integer field encoding *)

RECURSIVE BigEndian(_)
\* n.to_bytes((n.bit_length() + 7) // 8, "big") for n > 0; <<>> for 0
BigEndian(n) == IF n = 0 THEN <<>> ELSE Append(BigEndian(n \div 256), n % 256)

\* zero encoded like an absent integer
_int_to_be_bytesZeroEmpty(n) ==
    IF n = NoneInt \/ n = 0 THEN EMPTY ELSE Bytes(BigEndian(n))

_int_to_be_bytes(n) ==
    IF n = NoneInt THEN EMPTY
    ELSE IF n = 0 THEN Bytes(<<0>>)
    ELSE Bytes(BigEndian(n))

RECURSIVE FromBigEndian(_)
FromBigEndian(s) ==
    IF s = <<>> THEN 0
    ELSE 256 * FromBigEndian(SubSeq(s, 1, Len(s) - 1)) + s[Len(s)]

\* int.from_bytes of a 32-byte digest: a 256-bit number, above every
\* integer a block field of the model holds
DigestInt == 1000000

_be_bytes_to_int(b) ==
    IF ~Truthy(b) \/ b = ZERO32 THEN 0
    ELSE IF b.k = "bytes" THEN FromBigEndian(b.v)
    ELSE DigestInt

-----------------------------------------------------------------------------
(* Atoms *)

\* Atom(data=..., next_id=..., kind=...); size is len(data)
Atom(data, next_id, kind) ==
    [data |-> data, next_id |-> next_id, kind |-> kind, size |-> BLen(data)]

\* the digest without the size
object_id_from_partsSizeless(data_hash, next_hash, size) ==
    Digest(<<data_hash, next_hash>>)

\* blake3(data_hash + next_hash + u64_le(size)).digest()
object_id_from_parts(data_hash, next_hash, size) ==
    Digest(<<data_hash, next_hash, u64_le(size)>>)

object_id(a) == object_id_from_parts(hash_bytes(a.data), a.next_id, a.size)

BLOCK_TAG == Bytes(<<98, 108, 111, 99, 107>>)

-----------------------------------------------------------------------------
(* Block *)

\* Block.__init__: the defaults of a fresh block
NewBlockObject ==
    [hash |-> EMPTY,
     previous_block_hash |-> ZERO32,
     previous_block |-> None,
     number |-> NoneInt,
     timestamp |-> NoneInt,
     accounts_hash |-> None,
     transactions_total_fees |-> NoneInt,
     transactions_hash |-> None,
     receipts_hash |-> None,
     delay_difficulty |-> NoneInt,
     delay_output |-> None,
     validator_public_key |-> None,
     body_hash |-> None,
     signature |-> None]

\* the ten detail payloads handed to _emit, in the defined order
DetailBytes(b) ==
    << b.previous_block_hash,
       _int_to_be_bytes(b.number),
       _int_to_be_bytes(b.timestamp),
       Or(b.accounts_hash, EMPTY),
       _int_to_be_bytes(b.transactions_total_fees),
       Or(b.transactions_hash, EMPTY),
       Or(b.receipts_hash, EMPTY),
       _int_to_be_bytes(b.delay_difficulty),
       Or(b.delay_output, EMPTY),
       Or(b.validator_public_key, EMPTY) >>

\* _emit: one BYTES atom per detail
DetailAtoms(b) == [i \in 1..10 |-> Atom(DetailBytes(b)[i], ZERO32, "BYTES")]

RECURSIVE BodyChain(_)
\* the list chain over the child ids: node i has data = ids[i] and points
\* to node i+1, the last one to ZERO32
BodyChain(ids) ==
    IF ids = <<>> THEN <<>>
    ELSE LET rest == BodyChain(Tail(ids))
             body_head == IF rest = <<>> THEN ZERO32 ELSE object_id(rest[1])
         IN  <<Atom(ids[1], body_head, "BYTES")>> \o rest

\* head id of a list chain (ZERO32 for the empty list)
ChainHead(chain) == IF chain = <<>> THEN ZERO32 ELSE object_id(chain[1])

BodyAtoms(b) ==
    BodyChain([i \in 1..10 |-> object_id(DetailAtoms(b)[i])])

BodyListAtom(b) == Atom(ChainHead(BodyAtoms(b)), ZERO32, "LIST")

\* the value to_atom stores in self.body_hash
BodyHash(b) == object_id(BodyListAtom(b))

SigAtom(b) == Atom(b.signature, BodyHash(b), "BYTES")

TypeAtom(b) == Atom(BLOCK_TAG, object_id(SigAtom(b)), "SYMBOL")

\* the block id to_atom returns
ToAtomBlockId(b) == b.hash

\* Block.to_atom: the returned pair; Atom(data=None) raises TypeError
\* (len of None) after self.body_hash has been assigned
to_atom(b) ==
    IF b.signature = None
    THEN [ok |-> FALSE, err |-> "TypeError"]
    ELSE [ok |-> TRUE,
          block_id |-> ToAtomBlockId(b),
          atoms |-> DetailAtoms(b) \o BodyAtoms(b)
                    \o <<BodyListAtom(b), SigAtom(b), TypeAtom(b)>>]

-----------------------------------------------------------------------------
(* Node storage *)

EmptyStorage == [id \in {} |-> None]

\* storage[key] = value, as a new mapping
StorageSet(st, key, value) ==
    [id \in DOMAIN st \cup {key} |-> IF id = key THEN value ELSE st[id]]

RECURSIVE StorageSetAll(_, _)
\* for a in atoms: node._hot_storage_set(a.object_id(), a)
StorageSetAll(st, atoms) ==
    IF atoms = <<>> THEN st
    ELSE StorageSetAll(StorageSet(st, object_id(atoms[1]), atoms[1]), Tail(atoms))

\* node.storage_get(key): the atom or None
storage_get(st, key) == IF key \in DOMAIN st THEN st[key] ELSE None

\* the list get_atom_list_from_storage returns, or its None
AtomList(atoms) == [none |-> FALSE, atoms |-> atoms]

NoAtomList == [none |-> TRUE, atoms |-> <<>>]

RECURSIVE get_atom_list_from_storage(_, _)
\* follow next_id from root until ZERO32; None when an atom is missing
get_atom_list_from_storage(st, root) ==
    IF ~Truthy(root) \/ root = ZERO32 THEN AtomList(<<>>)
    ELSE LET elem == storage_get(st, root) IN
         IF elem = None THEN NoAtomList
         ELSE LET rest == get_atom_list_from_storage(st, elem.next_id) IN
              IF rest.none THEN NoAtomList ELSE AtomList(<<elem>> \o rest.atoms)

-----------------------------------------------------------------------------
(* Decoding *)

\* the ValueError raised by from_atom
Malformed(msg) == [ok |-> FALSE, err |-> msg]

\* the ten payloads from_atom reads: body_atom.data of each list node
DetailValues(body_atoms) == [i \in 1..10 |-> body_atoms[i].data]

\* the Block object from_atom assembles from the header and the ten values
DecodedBlock(block_id, sig_atom, body_list_atom, dv) ==
    [hash |-> block_id,
     previous_block_hash |-> Or(dv[1], ZERO32),
     previous_block |-> None,
     number |-> _be_bytes_to_int(dv[2]),
     timestamp |-> _be_bytes_to_int(dv[3]),
     accounts_hash |-> Or(dv[4], None),
     transactions_total_fees |-> _be_bytes_to_int(dv[5]),
     transactions_hash |-> Or(dv[6], None),
     receipts_hash |-> Or(dv[7], None),
     delay_difficulty |-> _be_bytes_to_int(dv[8]),
     delay_output |-> Or(dv[9], None),
     validator_public_key |-> Or(dv[10], None),
     body_hash |-> object_id(body_list_atom),
     signature |-> sig_atom.data]

\* DecodeBody with the count test turned into "fewer than ten"
DecodeBodyAtLeastTen(st, block_id, type_atom, sig_atom, body_list_atom) ==
    IF type_atom.kind # "SYMBOL" \/ type_atom.data # BLOCK_TAG
    THEN Malformed("not a block (type atom payload)")
    ELSE IF sig_atom.kind # "BYTES"
    THEN Malformed("malformed block (signature atom kind)")
    ELSE IF body_list_atom.kind # "LIST"
    THEN Malformed("malformed block (body list atom kind)")
    ELSE IF body_list_atom.next_id # ZERO32
    THEN Malformed("malformed block (body list tail)")
    ELSE LET body_atoms == get_atom_list_from_storage(st, body_list_atom.data) IN
         IF body_atoms.none
         THEN Malformed("missing block body list nodes")
         ELSE IF Len(body_atoms.atoms) < 10
         THEN Malformed("block body must contain exactly 10 detail entries")
         ELSE IF \E i \in 1..10 : body_atoms.atoms[i].kind # "BYTES"
         THEN Malformed("list element must be bytes while decoding block body")
         ELSE [ok |-> TRUE,
               b |-> DecodedBlock(block_id, sig_atom, body_list_atom,
                                  DetailValues(body_atoms.atoms))]

\* body of from_atom once the three header atoms are in hand
DecodeBody(st, block_id, type_atom, sig_atom, body_list_atom) ==
    IF type_atom.kind # "SYMBOL" \/ type_atom.data # BLOCK_TAG
    THEN Malformed("not a block (type atom payload)")
    ELSE IF sig_atom.kind # "BYTES"
    THEN Malformed("malformed block (signature atom kind)")
    ELSE IF body_list_atom.kind # "LIST"
    THEN Malformed("malformed block (body list atom kind)")
    ELSE IF body_list_atom.next_id # ZERO32
    THEN Malformed("malformed block (body list tail)")
    ELSE LET body_atoms == get_atom_list_from_storage(st, body_list_atom.data) IN
         IF body_atoms.none
         THEN Malformed("missing block body list nodes")
         ELSE IF Len(body_atoms.atoms) # 10
         THEN Malformed("block body must contain exactly 10 detail entries")
         ELSE IF \E i \in 1..10 : body_atoms.atoms[i].kind # "BYTES"
         THEN Malformed("list element must be bytes while decoding block body")
         ELSE [ok |-> TRUE,
               b |-> DecodedBlock(block_id, sig_atom, body_list_atom,
                                  DetailValues(body_atoms.atoms))]

\* Block.from_atom(node, block_id) on a node whose storage is st
from_atom(st, block_id) ==
    LET block_header == get_atom_list_from_storage(st, block_id) IN
    IF block_header.none
    THEN Malformed("malformed block atom chain")
    ELSE IF Len(block_header.atoms) # 3
    THEN Malformed("malformed block atom chain")
    ELSE DecodeBody(st, block_id, block_header.atoms[1], block_header.atoms[2],
                    block_header.atoms[3])

-----------------------------------------------------------------------------
(* Ed25519, idealised: a signature verifies exactly under the key that     *)
(* made it and over the message it was made for                            *)

\* the 32-byte public key of secret key sk, kept as one symbol
PublicKey(sk) == [k |-> "pk", sk |-> sk]

Sign(sk, msg) == [k |-> "sig", key |-> PublicKey(sk), msg |-> msg]

\* pub.verify(signature, body_hash) does not raise InvalidSignature
Verifies(pk, sig, msg) == sig.k = "sig" /\ sig.key = pk /\ sig.msg = msg

-----------------------------------------------------------------------------
(* Validation *)

\* the three outcomes of validate: True, False, raise ValueError
Outcome(out, err, reads) == [out |-> out, err |-> err, reads |-> reads]

\* Block.from_atom(storage_get, prev_hash) as validate calls it: the first
\* statement needs storage_get.get_atom_list_from_storage, which a callable
\* (a function or a bound method) does not have
ResolveFromStore(arg, st, prev_hash) ==
    IF arg = "callable" THEN Malformed("AttributeError")
    ELSE from_atom(st, prev_hash)

\* TimestampCheck with the comparison cur_ts < prev_ts
TimestampCheckOffByOne(b, st, arg) ==
    LET attached == b.previous_block # None
        hash0 == Or(b.previous_block_hash, ZERO32)
        prev_ts0 == IF attached THEN IntOr0(b.previous_block.timestamp) ELSE NoneInt
        prev_hash == IF attached
                     THEN Or(b.previous_block.hash, Or(hash0, ZERO32))
                     ELSE hash0
        lookup == Truthy(prev_hash) /\ prev_hash # ZERO32 /\ prev_ts0 = NoneInt
        prev == ResolveFromStore(arg, st, prev_hash)
        reads == lookup /\ arg = "node"
    IN  IF lookup /\ ~prev.ok
        THEN Outcome("unverifiable", "", reads)
        ELSE LET prev_ts == IF lookup THEN IntOr0(prev.b.timestamp) ELSE prev_ts0
                 cur_ts == IntOr0(b.timestamp)
             IN  IF Truthy(prev_hash) /\ prev_hash # ZERO32
                 THEN IF prev_ts = NoneInt
                      THEN Outcome("unverifiable", "", reads)
                      ELSE IF cur_ts < prev_ts
                      THEN Outcome("invalid", "timestamp must be at least prev+1", reads)
                      ELSE Outcome("valid", "", reads)
                 ELSE Outcome("valid", "", reads)

\* TimestampCheck with a failed lookup raised as an error
TimestampCheckMissingRaises(b, st, arg) ==
    LET attached == b.previous_block # None
        hash0 == Or(b.previous_block_hash, ZERO32)
        prev_ts0 == IF attached THEN IntOr0(b.previous_block.timestamp) ELSE NoneInt
        prev_hash == IF attached
                     THEN Or(b.previous_block.hash, Or(hash0, ZERO32))
                     ELSE hash0
        lookup == Truthy(prev_hash) /\ prev_hash # ZERO32 /\ prev_ts0 = NoneInt
        prev == ResolveFromStore(arg, st, prev_hash)
        reads == lookup /\ arg = "node"
    IN  IF lookup /\ ~prev.ok
        THEN Outcome("invalid", prev.err, reads)
        ELSE LET prev_ts == IF lookup THEN IntOr0(prev.b.timestamp) ELSE prev_ts0
                 cur_ts == IntOr0(b.timestamp)
             IN  IF Truthy(prev_hash) /\ prev_hash # ZERO32
                 THEN IF prev_ts = NoneInt
                      THEN Outcome("unverifiable", "", reads)
                      ELSE IF cur_ts < prev_ts + 1
                      THEN Outcome("invalid", "timestamp must be at least prev+1", reads)
                      ELSE Outcome("valid", "", reads)
                 ELSE Outcome("valid", "", reads)

\* lines 251-274: the timestamp check, after the signature has verified
TimestampCheck(b, st, arg) ==
    LET attached == b.previous_block # None
        hash0 == Or(b.previous_block_hash, ZERO32)
        prev_ts0 == IF attached THEN IntOr0(b.previous_block.timestamp) ELSE NoneInt
        prev_hash == IF attached
                     THEN Or(b.previous_block.hash, Or(hash0, ZERO32))
                     ELSE hash0
        lookup == Truthy(prev_hash) /\ prev_hash # ZERO32 /\ prev_ts0 = NoneInt
        prev == ResolveFromStore(arg, st, prev_hash)
        reads == lookup /\ arg = "node"
    IN  IF lookup /\ ~prev.ok
        THEN Outcome("unverifiable", "", reads)
        ELSE LET prev_ts == IF lookup THEN IntOr0(prev.b.timestamp) ELSE prev_ts0
                 cur_ts == IntOr0(b.timestamp)
             IN  IF Truthy(prev_hash) /\ prev_hash # ZERO32
                 THEN IF prev_ts = NoneInt
                      THEN Outcome("unverifiable", "", reads)
                      ELSE IF cur_ts < prev_ts + 1
                      THEN Outcome("invalid", "timestamp must be at least prev+1", reads)
                      ELSE Outcome("valid", "", reads)
                 ELSE Outcome("valid", "", reads)

\* lines 244-249: Ed25519PublicKey.from_public_bytes raises ValueError on a
\* key that is not 32 bytes; InvalidSignature becomes ValueError
SignatureCheck(b) ==
    IF BLen(b.validator_public_key) # 32 THEN "bad public key"
    ELSE IF ~Verifies(b.validator_public_key, b.signature, b.body_hash)
    THEN "invalid signature"
    ELSE ""

\* validate with the signature verified only once the timestamp check passed
validateSignatureLast(b, st, arg) ==
    IF ~Truthy(b.body_hash) THEN Outcome("unverifiable", "", FALSE)
    ELSE IF ~Truthy(b.signature) THEN Outcome("unverifiable", "", FALSE)
    ELSE IF ~Truthy(b.validator_public_key) THEN Outcome("unverifiable", "", FALSE)
    ELSE IF b.timestamp = NoneInt THEN Outcome("unverifiable", "", FALSE)
    ELSE IF TimestampCheck(b, st, arg).out # "valid"
    THEN TimestampCheck(b, st, arg)
    ELSE IF SignatureCheck(b) # ""
    THEN Outcome("invalid", SignatureCheck(b), TimestampCheck(b, st, arg).reads)
    ELSE TimestampCheck(b, st, arg)

\* validate without the test for a missing timestamp
validateTimestampDefaulted(b, st, arg) ==
    IF ~Truthy(b.body_hash) THEN Outcome("unverifiable", "", FALSE)
    ELSE IF ~Truthy(b.signature) THEN Outcome("unverifiable", "", FALSE)
    ELSE IF ~Truthy(b.validator_public_key) THEN Outcome("unverifiable", "", FALSE)
    ELSE IF SignatureCheck(b) # ""
    THEN Outcome("invalid", SignatureCheck(b), FALSE)
    ELSE TimestampCheck(b, st, arg)

\* Block.validate(storage_get); arg says what the caller passed as
\* storage_get: a callable, or a node object
validate(b, st, arg) ==
    IF ~Truthy(b.body_hash) THEN Outcome("unverifiable", "", FALSE)
    ELSE IF ~Truthy(b.signature) THEN Outcome("unverifiable", "", FALSE)
    ELSE IF ~Truthy(b.validator_public_key) THEN Outcome("unverifiable", "", FALSE)
    ELSE IF b.timestamp = NoneInt THEN Outcome("unverifiable", "", FALSE)
    ELSE IF SignatureCheck(b) # ""
    THEN Outcome("invalid", SignatureCheck(b), FALSE)
    ELSE TimestampCheck(b, st, arg)

-----------------------------------------------------------------------------
(* Inputs *)

OptTimestamps == {NoneInt} \cup 0..MaxTimestamp

OptNumbers == {NoneInt} \cup 0..MaxNumber

OptBytes == {None, EMPTY, Bytes(<<97>>)}

\* the id of a block nobody stored
DANGLING == hash_bytes(Bytes(<<100>>))

\* a body hash other than the one to_atom computes
TAMPERED == hash_bytes(Bytes(<<116>>))

SecretKeys == {1, 2}

\* ids of the type atoms held in storage
StoredBlockIds(st) == {id \in DOMAIN st : st[id].kind = "SYMBOL"}

\* the previous_block objects a caller may attach: validate reads their
\* hash and timestamp only
PreviousBlocks ==
    [hash : {EMPTY, ZERO32, DANGLING}, timestamp : OptTimestamps]

\* a stored predecessor: a block with timestamp 0, encoded by to_atom
StoredPrevious ==
    [NewBlockObject EXCEPT !.timestamp = 0, !.number = 0, !.signature = EMPTY,
                           !.validator_public_key = PublicKey(1)]

\* the ways the atoms of an encoded block can be off when another writer
\* produced them
Variants == {"tag", "short", "long", "tail_empty", "tail_dangling",
             "body9", "body11"}

\* the atoms of block b, written with the deviation v
VariantAtoms(b, v) ==
    LET ids == [i \in 1..10 |-> object_id(DetailAtoms(b)[i])]
        vids == IF v = "body9" THEN SubSeq(ids, 1, 9)
                ELSE IF v = "body11" THEN Append(ids, ids[1])
                ELSE ids
        chain == BodyChain(vids)
        extra == Atom(EMPTY, ZERO32, "BYTES")
        tail == IF v = "long" THEN object_id(extra)
                ELSE IF v = "tail_empty" THEN EMPTY
                ELSE IF v = "tail_dangling" THEN DANGLING
                ELSE ZERO32
        body_list_atom == Atom(ChainHead(chain), tail, "LIST")
        sig_atom == Atom(b.signature, object_id(body_list_atom), "BYTES")
        type_atom == Atom(IF v = "tag" THEN Bytes(<<98, 108, 111, 107>>) ELSE BLOCK_TAG,
                          IF v = "short" THEN object_id(body_list_atom)
                          ELSE object_id(sig_atom),
                          "SYMBOL")
    IN  DetailAtoms(b) \o chain \o <<extra, body_list_atom, sig_atom, type_atom>>

\* no call has returned since the block was last assigned to
NoCall == [op |-> "none"]

-----------------------------------------------------------------------------
(* Operations *)

\* b = Block() followed by the assignment of its body fields; a behaviour
\* follows one block object from its construction on
NewBlockWith(timestamps, numbers, fills) ==
    /\ last.op = "init"
    /\ \E prev \in {ZERO32, DANGLING} \cup StoredBlockIds(storage),
          ts \in timestamps, pk \in {None, PublicKey(1)},
          n \in numbers, a \in fills :
           /\ block' = [NewBlockObject EXCEPT
                           !.previous_block_hash = prev,
                           !.timestamp = ts,
                           !.validator_public_key = pk,
                           !.number = n,
                           !.transactions_total_fees = n,
                           !.delay_difficulty = n,
                           !.accounts_hash = a,
                           !.transactions_hash = a,
                           !.receipts_hash = a,
                           !.delay_output = a]
           /\ last' = NoCall
           /\ UNCHANGED storage

\* a block to validate; the fields validate does not read keep their defaults
NewBlock == NewBlockWith(OptTimestamps, {NoneInt}, {None})

\* a block to encode
NewCodecBlock == NewBlockWith({MaxTimestamp}, OptNumbers, OptBytes)

\* block.previous_block = pb
SetPreviousBlock ==
    \E pb \in {None} \cup PreviousBlocks :
        /\ last.op # "init"
        /\ pb # block.previous_block
        /\ block' = [block EXCEPT !.previous_block = pb]
        /\ last' = NoCall
        /\ UNCHANGED storage

\* block.signature = b"" (as create_genesis_block passes it) or None
SetSignature ==
    \E s \in {None, EMPTY} :
        /\ last.op # "init"
        /\ s # block.signature
        /\ block' = [block EXCEPT !.signature = s]
        /\ last' = NoCall
        /\ UNCHANGED storage

\* block.signature = secret.sign(block.body_hash)
SignBlock ==
    \E sk \in SecretKeys :
        /\ Truthy(block.body_hash)
        /\ block' = [block EXCEPT !.signature = Sign(sk, block.body_hash)]
        /\ last' = NoCall
        /\ UNCHANGED storage

\* block.body_hash = h: the body hash is altered or dropped
SetBodyHash ==
    \E h \in {None, TAMPERED} :
        /\ last.op # "init"
        /\ h # block.body_hash
        /\ block' = [block EXCEPT !.body_hash = h]
        /\ last' = NoCall
        /\ UNCHANGED storage

\* block_id, atoms = block.to_atom(); the atoms are to_atom(block).atoms
\* for as long as the body fields and the signature stay as they are
ToAtom ==
    /\ last.op # "init"
    /\ block' = [block EXCEPT !.body_hash = BodyHash(block)]
    /\ last' = [op |-> "to_atom", ok |-> to_atom(block).ok,
                block_id |-> ToAtomBlockId(block)]
    /\ UNCHANGED storage

\* for a in atoms: node._local_set(a.object_id(), a), right after to_atom
StoreAtoms ==
    /\ last.op = "to_atom"
    /\ last.ok
    /\ storage = EmptyStorage
    /\ storage' = StorageSetAll(storage, to_atom(block).atoms)
    /\ last' = [op |-> "store", block_id |-> last.block_id]
    /\ UNCHANGED block

\* atoms of another writer reach the storage
StoreVariant ==
    \E v \in Variants :
        /\ last.op = "to_atom"
        /\ last.ok
        /\ storage = EmptyStorage
        /\ storage' = StorageSetAll(storage, VariantAtoms(block, v))
        /\ last' = [op |-> "store_variant"]
        /\ UNCHANGED block

\* Block.from_atom(node, block_id)
FromAtom ==
    \E block_id \in (StoredBlockIds(storage) \cup {DANGLING}
                     \cup {block.hash, block.body_hash}) \ {None} :
        /\ last.op # "init"
        /\ last' = [op |-> "from_atom", block_id |-> block_id,
                    ret |-> from_atom(storage, block_id)]
        /\ UNCHANGED <<block, storage>>

\* block.validate(storage_get)
Validate ==
    \E arg \in {"callable", "node"} :
        /\ last.op # "init"
        /\ last' = [op |-> "validate", arg |-> arg,
                    ret |-> validate(block, storage, arg)]
        /\ UNCHANGED <<block, storage>>

-----------------------------------------------------------------------------
(* Validation of a block against a node whose storage is empty or holds    *)
(* one encoded predecessor                                                 *)

Init ==
    /\ block = NewBlockObject
    /\ storage \in {EmptyStorage,
                    StorageSetAll(EmptyStorage, to_atom(StoredPrevious).atoms)}
    /\ last = [op |-> "init"]

Next ==
    \/ NewBlock
    \/ SetPreviousBlock
    \/ SetSignature
    \/ SignBlock
    \/ SetBodyHash
    \/ ToAtom
    \/ Validate

Spec == Init /\ [][Next]_vars

-----------------------------------------------------------------------------
(* Encoding a block, storing its atoms and decoding it again               *)

InitCodec ==
    /\ block = NewBlockObject
    /\ storage = EmptyStorage
    /\ last = [op |-> "init"]

NextCodec ==
    \/ NewCodecBlock
    \/ SetSignature
    \/ SignBlock
    \/ ToAtom
    \/ StoreAtoms
    \/ StoreVariant
    \/ FromAtom

SpecCodec == InitCodec /\ [][NextCodec]_vars

-----------------------------------------------------------------------------
(* Properties of validate; they speak of the state in which a call has     *)
(* just returned: last holds the result, block and storage its arguments   *)

Validated == last.op = "validate"

\* body_hash, signature, validator_public_key and timestamp are present
AllPresent(b) ==
    /\ Truthy(b.body_hash)
    /\ Truthy(b.signature)
    /\ Truthy(b.validator_public_key)
    /\ b.timestamp # NoneInt

\* the signature verifies over body_hash under validator_public_key
CorrectlySigned(b) ==
    /\ AllPresent(b)
    /\ Verifies(b.validator_public_key, b.signature, b.body_hash)

\* the hash of the predecessor a block carries: that of the attached
\* previous block when it has one, else previous_block_hash
PredecessorHash(b) ==
    IF b.previous_block # None /\ Truthy(b.previous_block.hash)
    THEN b.previous_block.hash
    ELSE b.previous_block_hash

\* the previous block's atoms are in storage and decode
Decodable(st, id) == from_atom(st, id).ok

\* C1: when the four required fields are present and the signature does not
\* verify over body_hash under validator_public_key, validate raises
\* (invalid), whatever previous block is named, attached or stored.
C1_BadSignatureIsInvalid ==
    (Validated /\ AllPresent(block) /\ ~CorrectlySigned(block))
        => last.ret.out = "invalid"

\* a block whose body_hash was altered after signing, with an attached
\* previous block and a stored one, has been validated
C1_Witness ==
    /\ Validated
    /\ block.body_hash = TAMPERED
    /\ Truthy(block.signature)
    /\ block.signature # Sign(1, TAMPERED)
    /\ block.validator_public_key = PublicKey(1)
    /\ block.timestamp # NoneInt
    /\ block.previous_block # None
    /\ storage # EmptyStorage
    /\ last.ret.out = "invalid"

C3_GenesisExemption ==
    (Validated /\ CorrectlySigned(block) /\ block.previous_block_hash = ZERO32)
        => last.ret.out = "valid"

\* C4: when any of body_hash, signature, validator_public_key or timestamp
\* is missing, validate returns False (unverifiable) and reads nothing from
\* the store.
C4_MissingFieldUnverifiable ==
    (Validated /\ ~AllPresent(block))
        => (last.ret.out = "unverifiable" /\ ~last.ret.reads)

\* a block signed over its body hash but without a timestamp, naming a
\* stored predecessor, has been validated against the node
C4_Witness ==
    /\ Validated
    /\ last.arg = "node"
    /\ block.timestamp = NoneInt
    /\ block.validator_public_key = PublicKey(1)
    /\ block.signature = Sign(1, block.body_hash)
    /\ block.previous_block_hash \in StoredBlockIds(storage)
    /\ last.ret.out = "unverifiable"

\* C5: a correctly signed block with previous_block_hash # ZERO32 whose
\* previous block is neither attached nor decodable from the store is
\* unverifiable, never invalid, whatever its timestamp.
C5_UnresolvablePrevious ==
    (/\ Validated
     /\ CorrectlySigned(block)
     /\ block.previous_block_hash # ZERO32
     /\ block.previous_block = None
     /\ ~Decodable(storage, block.previous_block_hash))
        => last.ret.out = "unverifiable"

\* a correctly signed block naming a block that is not in a non-empty
\* store has been validated against the node
C5_Witness ==
    /\ Validated
    /\ last.arg = "node"
    /\ CorrectlySigned(block)
    /\ block.previous_block_hash = DANGLING
    /\ block.previous_block = None
    /\ storage # EmptyStorage
    /\ last.ret.out = "unverifiable"
    /\ last.ret.reads

\* C6: with no previous block attached and the previous block's atoms in
\* the store passed as storage_get, the timestamp rule is applied to the
\* stored block: timestamp >= stored timestamp + 1 is valid, less is invalid.
C6_StoreResolution ==
    (/\ Validated
     /\ CorrectlySigned(block)
     /\ block.previous_block = None
     /\ block.previous_block_hash \in StoredBlockIds(storage)
     /\ Decodable(storage, block.previous_block_hash))
        => last.ret.out = IF block.timestamp >= StoredPrevious.timestamp + 1
                          THEN "valid" ELSE "invalid"

\* C7: validate returns valid only if the signature verified and, for a
\* block with previous_block_hash # ZERO32, the previous block was resolved
\* with a known timestamp and timestamp >= previous timestamp + 1.
C7_ValidOnlyIfChecked ==
    (Validated /\ last.ret.out = "valid")
        => /\ CorrectlySigned(block)
           /\ block.previous_block_hash # ZERO32
                => \/ /\ block.previous_block # None
                      /\ block.previous_block.timestamp # NoneInt
                      /\ block.timestamp >= block.previous_block.timestamp + 1
                   \/ /\ block.previous_block = None
                      /\ Decodable(storage, block.previous_block_hash)
                      /\ block.timestamp >= StoredPrevious.timestamp + 1

-----------------------------------------------------------------------------
(* Properties of to_atom and from_atom *)

\* every atom to_atom returns for b is in st under its object id
AtomsStored(st, b) ==
    \A i \in 1..Len(to_atom(b).atoms) :
        /\ object_id(to_atom(b).atoms[i]) \in DOMAIN st
        /\ st[object_id(to_atom(b).atoms[i])] = to_atom(b).atoms[i]

\* the ten body fields and the signature agree
SameFields(a, b) ==
    /\ a.previous_block_hash = b.previous_block_hash
    /\ a.number = b.number
    /\ a.timestamp = b.timestamp
    /\ a.accounts_hash = b.accounts_hash
    /\ a.transactions_total_fees = b.transactions_total_fees
    /\ a.transactions_hash = b.transactions_hash
    /\ a.receipts_hash = b.receipts_hash
    /\ a.delay_difficulty = b.delay_difficulty
    /\ a.delay_output = b.delay_output
    /\ a.validator_public_key = b.validator_public_key
    /\ a.signature = b.signature

\* C8: storing the atoms returned by to_atom and calling from_atom with the
\* returned block id yields a block equal to the original in the ten body
\* fields and the signature.
C8_RoundTrip ==
    (/\ last.op = "from_atom"
     /\ to_atom(block).ok
     /\ AtomsStored(storage, block)
     /\ last.block_id = to_atom(block).block_id)
        => (last.ret.ok /\ SameFields(last.ret.b, block))

\* C9: the block id to_atom returns is the object id of the tag atom, whose
\* data is "block" and whose next is the signature atom, whose next is the
\* body-list atom, whose next is ZERO32; it is among the ids of the atoms
\* returned.
C9_BlockIdIsTagAtomId ==
    (last.op = "to_atom" /\ last.ok)
        => /\ last.block_id = object_id(TypeAtom(block))
           /\ TypeAtom(block).data = BLOCK_TAG
           /\ TypeAtom(block).next_id = object_id(SigAtom(block))
           /\ SigAtom(block).next_id = object_id(BodyListAtom(block))
           /\ BodyListAtom(block).next_id = ZERO32
           /\ \E i \in 1..Len(to_atom(block).atoms) :
                  last.block_id = object_id(to_atom(block).atoms[i])

\* the chain of atoms reachable from id through next pointers
Chain(st, id) == get_atom_list_from_storage(st, id)

\* the top-level chain at id or the body list behind it has the wrong shape
WrongShape(st, id) ==
    \/ Chain(st, id).none
    \/ Len(Chain(st, id).atoms) # 3
    \/ Chain(st, id).atoms[1].data # BLOCK_TAG
    \/ Chain(st, id).atoms[3].next_id # ZERO32
    \/ Chain(st, Chain(st, id).atoms[3].data).none
    \/ Len(Chain(st, Chain(st, id).atoms[3].data).atoms) # 10

\* C10: from_atom fails, and returns no block, whenever the top-level chain
\* does not have exactly three atoms, the tag atom's data is not "block",
\* the body-list atom's next is not ZERO32, or the body list does not have
\* exactly ten elements.
C10_MalformedRejected ==
    (last.op = "from_atom" /\ WrongShape(storage, last.block_id))
        => ~last.ret.ok

\* a block whose body list has eleven elements has been refused
C10_Witness ==
    /\ last.op = "from_atom"
    /\ ~Chain(storage, last.block_id).none
    /\ Len(Chain(storage, last.block_id).atoms) = 3
    /\ Len(Chain(storage, Chain(storage, last.block_id).atoms[3].data).atoms) = 11
    /\ ~last.ret.ok
    /\ last.ret.err = "block body must contain exactly 10 detail entries"

-----------------------------------------------------------------------------
(* Ledger values of the block builder (astreum/models/block.py)            *)

\* bytes([byte]) * 32, kept as one symbol
Fill32(byte) == [k |-> "fill32", byte |-> byte]

\* BURN = b"\x00" * 32
BURN == ZERO32

\* TREASURY = b"\x11" * 32
TREASURY == Fill32(17)

\* TREASURY_ADDRESS = b"\x01" * 32 of consensus/genesis.py
TREASURY_ADDRESS == Fill32(1)

\* the validator's 32-byte public key
VALIDATOR == PublicKey(1)

\* two users: ALICE holds funds, CAROL has no account yet
ALICE == Fill32(170)

CAROL == Fill32(204)

\* every address the model speaks of
Addresses == {BURN, TREASURY, TREASURY_ADDRESS, VALIDATOR, ALICE, CAROL}

\* Account.create(balance=..., data=..., nonce=...)
Account_create(balance, data, nonce) ==
    [balance |-> balance, data |-> data, nonce |-> nonce]

\* n.to_bytes(width, "big"): byte i is the digit of 256^(width - i); a
\* balance stays below 256^4, so the digits above that are 0
BigEndianFixed(n, width) ==
    [i \in 1..width |->
        IF width - i > 3 THEN 0 ELSE (n \div (256 ^ (width - i))) % 256]

\* (n).to_bytes(32, "big")
to_bytes32(n) == Bytes(BigEndianFixed(n, 32))

\* int.from_bytes(b, "big"): the leading zero bytes add nothing, the digits
\* from the first nonzero byte on are summed
int_from_bytes(b) ==
    LET s == b.v
        nonzero == {i \in 1..Len(s) : s[i] # 0}
        first == CHOOSE i \in nonzero : \A j \in nonzero : i <= j
    IN  IF nonzero = {} THEN 0 ELSE FromBigEndian(SubSeq(s, first, Len(s)))

-----------------------------------------------------------------------------
(* Patricia trie and account set, as persistent maps: the root id of a     *)
(* trie is a digest of its whole content                                   *)

\* a trie that holds no key
NoEntries == [a \in Addresses |-> None]

\* root_hash of a trie holding the entries m
TrieRoot(m) == [k |-> "trie", entries |-> m]

\* the entries of the trie whose root is root (nothing for None or b"")
TrieEntries(root) == IF root.k = "trie" THEN root.entries ELSE NoEntries

\* PatriciaTrie(root_hash=root).get(key): the value or None
PatriciaTrie_get(root, key) == TrieEntries(root)[key]

\* trie.put(key, value); trie.root_hash
PatriciaTrie_put(root, key, value) ==
    TrieRoot([TrieEntries(root) EXCEPT ![key] = value])

\* Accounts(root_hash=...): a working copy over the node store st
Accounts(st, root_hash) == [root_hash |-> root_hash, st |-> st]

\* accts.get_account(addr): the account or None
get_account(accts, addr) ==
    IF accts.root_hash \in DOMAIN accts.st
    THEN accts.st[accts.root_hash][addr]
    ELSE None

\* accts.set_account(addr, acc): new nodes are written to the store, the
\* working copy moves to the new root, the old root stays as it was
set_account(accts, addr, acc) ==
    LET m == [a \in Addresses |-> IF a = addr THEN acc ELSE get_account(accts, a)]
        root == [k |-> "root", accounts |-> m]
    IN  [root_hash |-> root, st |-> StorageSet(accts.st, root, m)]

\* Accounts(): the empty account set
EmptyAccounts(st) == Accounts(st, None)

-----------------------------------------------------------------------------
(* Transactions and the block object of astreum/models/block.py            *)

\* a Transaction, read through get_sender_pk, get_recipient_pk, get_amount,
\* get_fee and get_nonce
Transaction(sender, recipient, amount, fee, nonce) ==
    [sender |-> sender, recipient |-> recipient, amount |-> amount,
     fee |-> fee, nonce |-> nonce]

\* tx.hash
TxHash(tx) == [k |-> "txhash", tx |-> tx]

\* MerkleTree.from_leaves(leaves).root_hash
MerkleRoot(leaves) == [k |-> "merkle", leaves |-> leaves]

_INT_FIELDS ==
    {"delay_difficulty", "number", "timestamp", "transaction_limit",
     "transactions_total_fees"}

\* Block.create(**body): the body tree holds one leaf per field given, an
\* integer field of _INT_FIELDS as its big-endian bytes and any other field
\* as it was passed; the block hash commits to the leaves
create(body) ==
    LET leaves == [f \in DOMAIN body |->
                      IF f \in _INT_FIELDS THEN Bytes(BigEndian(body[f]))
                      ELSE body[f]]
    IN  [k |-> "block",
         hash |-> [k |-> "blockhash", leaves |-> leaves],
         leaves |-> leaves]

\* name is one of self._field_names
HasField(b, name) == name \in DOMAIN b.leaves

\* Block.get_field(name) for a known field: int.from_bytes of the leaf for
\* the names of _INT_FIELDS, the leaf itself for every other name
get_field(b, name) ==
    IF name \in _INT_FIELDS THEN int_from_bytes(b.leaves[name])
    ELSE b.leaves[name]

-----------------------------------------------------------------------------
(* Block.build *)

\* natural_rate, in thousandths: the default of build is 0.618
DefaultNaturalRate == 618

\* the result of a step of build that raised
Raised(err, accts) == [ok |-> FALSE, err |-> err, accts |-> accts]

\* the result of a step of build that went through
Done(accts) == [ok |-> TRUE, err |-> "", accts |-> accts]

\* _credit(addr, amount)
_credit(accts, addr, amount) ==
    LET acc == get_account(accts, addr)
        bal == IF acc # None THEN acc.balance ELSE 0
        dat == IF acc # None THEN acc.data ELSE EMPTY
        nce == IF acc # None THEN acc.nonce ELSE 0
    IN  set_account(accts, addr, Account_create(bal + amount, dat, nce))

\* floor_limit with no floor of 1
EffectiveTxsNoFloor(prev_limit, transactions) ==
    SubSeq(transactions, 1,
           IF Len(transactions) < prev_limit THEN Len(transactions) ELSE prev_limit)

\* every transaction offered is processed
EffectiveTxsUncapped(prev_limit, transactions) == transactions

\* transactions[:max(prev_limit, 1)]
EffectiveTxs(prev_limit, transactions) ==
    LET floor_limit == IF prev_limit > 1 THEN prev_limit ELSE 1
    IN  SubSeq(transactions, 1,
               IF Len(transactions) < floor_limit THEN Len(transactions)
               ELSE floor_limit)

\* TxInvalid without the nonce comparison
TxInvalidNonceUnchecked(snd_acc, tx) ==
    IF snd_acc = None THEN TRUE
    ELSE snd_acc.balance < tx.amount + tx.fee

\* the test that raises ValueError("invalid transaction")
TxInvalid(snd_acc, tx) ==
    IF snd_acc = None THEN TRUE
    ELSE snd_acc.nonce # tx.nonce \/ snd_acc.balance < tx.amount + tx.fee

\* Debit that leaves the fee with the sender
DebitAmountOnly(snd_acc, tx) ==
    Account_create(snd_acc.balance - tx.amount, snd_acc.data, snd_acc.nonce + 1)

\* the sender's account after the debit
Debit(snd_acc, tx) ==
    Account_create(snd_acc.balance - tx.amount - tx.fee, snd_acc.data,
                   snd_acc.nonce + 1)

\* the stake deposit: recipient == TREASURY
StakeDeposit(accts, tx) ==
    LET treasury == get_account(accts, TREASURY) IN
    IF treasury = None THEN Raised("AttributeError", accts)
    ELSE LET found == PatriciaTrie_get(treasury.data, tx.sender)
             curr == int_from_bytes(Or(found, EMPTY))
             root_hash == PatriciaTrie_put(treasury.data, tx.sender,
                                           to_bytes32(curr + tx.amount))
         IN  Done(set_account(accts, TREASURY,
                              Account_create(treasury.balance + tx.amount,
                                             root_hash, treasury.nonce)))

\* the regular transfer: recipient is neither TREASURY nor BURN
Transfer(accts, tx) ==
    LET rcpt == get_account(accts, tx.recipient)
        rbal == IF rcpt # None THEN rcpt.balance ELSE 0
        rdat == IF rcpt # None THEN rcpt.data ELSE EMPTY
        rnon == IF rcpt # None THEN rcpt.nonce ELSE 0
    IN  Done(set_account(accts, tx.recipient,
                         Account_create(rbal + tx.amount, rdat, rnon)))

\* Route that treats BURN as an ordinary recipient
RouteBurnCredited(accts, tx) ==
    IF tx.recipient = TREASURY THEN StakeDeposit(accts, tx)
    ELSE Transfer(accts, tx)

\* the recipient side of one transaction
Route(accts, tx) ==
    IF tx.recipient = TREASURY THEN StakeDeposit(accts, tx)
    ELSE IF tx.recipient # BURN THEN Transfer(accts, tx)
    ELSE Done(accts)

\* one turn of the loop over effective_txs
ApplyTx(accts, tx) ==
    LET snd_acc == get_account(accts, tx.sender) IN
    IF TxInvalid(snd_acc, tx) THEN Raised("ValueError", accts)
    ELSE Route(set_account(accts, tx.sender, Debit(snd_acc, tx)), tx)

RECURSIVE ProcessTxs(_, _, _)
\* the loop over effective_txs; total_fees grows by each fee
ProcessTxs(accts, txs, total_fees) ==
    IF txs = <<>> THEN [ok |-> TRUE, err |-> "", accts |-> accts,
                        total_fees |-> total_fees]
    ELSE LET r == ApplyTx(accts, Head(txs)) IN
         IF ~r.ok THEN [ok |-> FALSE, err |-> r.err, accts |-> r.accts,
                        total_fees |-> total_fees]
         ELSE ProcessTxs(r.accts, Tail(txs), total_fees + Head(txs).fee)

\* burn_amt rounded up instead of down
burn_amtRoundedUp(total_fees) == (total_fees + 1) \div 2

\* burn_amt = total_fees // 2
burn_amt(total_fees) == total_fees \div 2

\* reward_amt = total_fees - burn_amt
reward_amt(total_fees) == total_fees - burn_amt(total_fees)

\* step 4 with the burnt half credited to no account
DistributeFeesRewardOnly(accts, validator_pk, total_fees) ==
    IF reward_amt(total_fees) # 0
    THEN _credit(accts, validator_pk, reward_amt(total_fees))
    ELSE accts

\* step 4: the two credits, each made only when its amount is not zero
DistributeFees(accts, validator_pk, total_fees) ==
    LET burned == IF burn_amt(total_fees) # 0
                  THEN _credit(accts, BURN, burn_amt(total_fees))
                  ELSE accts
    IN  IF reward_amt(total_fees) # 0
        THEN _credit(burned, validator_pk, reward_amt(total_fees))
        ELSE burned

\* new_limit with the count compared against the floor of the threshold
new_limitFlooredThreshold(prev_limit, prev_tx_count, natural_rate) ==
    IF prev_tx_count > (prev_limit * natural_rate) \div 1000 THEN prev_tx_count
    ELSE IF prev_tx_count < (prev_limit * natural_rate) \div 1000
    THEN LET shrunk == (prev_limit * natural_rate) \div 1000
         IN  IF shrunk > 1 THEN shrunk ELSE 1
    ELSE prev_limit

\* new_limit with the shrink branch not floored at 1
new_limitUnfloored(prev_limit, prev_tx_count, natural_rate) ==
    IF prev_tx_count * 1000 > prev_limit * natural_rate THEN prev_tx_count
    ELSE IF prev_tx_count * 1000 < prev_limit * natural_rate
    THEN (prev_limit * natural_rate) \div 1000
    ELSE prev_limit

\* step 5: threshold = prev_limit * natural_rate, with natural_rate in
\* thousandths; int(x) of a non-negative x is its floor
new_limit(prev_limit, prev_tx_count, natural_rate) ==
    IF prev_tx_count * 1000 > prev_limit * natural_rate THEN prev_tx_count
    ELSE IF prev_tx_count * 1000 < prev_limit * natural_rate
    THEN LET shrunk == (prev_limit * natural_rate) \div 1000
         IN  IF shrunk > 1 THEN shrunk ELSE 1
    ELSE prev_limit

\* next_timestamp that repeats the previous timestamp
next_timestampRepeated(prev_stamp) == prev_stamp

\* timestamp = prev_stamp + 1
next_timestamp(prev_stamp) == prev_stamp + 1

\* build raised: no block; st is the node store the attempt leaves behind
BuildRaised(err, st) == [ok |-> FALSE, err |-> err, st |-> st]

\* Block.build(previous_block, transactions, validator_pk=...,
\* natural_rate=...) over the node store st
build(st, previous_block, transactions, validator_pk, natural_rate) ==
    IF ~HasField(previous_block, "transactions_count")
    THEN BuildRaised("KeyError", st)
    ELSE
    LET accts == Accounts(st, get_field(previous_block, "accounts_hash"))
        prev_limit == get_field(previous_block, "transaction_limit")
        prev_stamp == get_field(previous_block, "timestamp")
        prev_tx_count == get_field(previous_block, "transactions_count")
        effective_txs == EffectiveTxs(prev_limit, transactions)
        run == ProcessTxs(accts, effective_txs, 0)
    IN  IF ~run.ok THEN BuildRaised(run.err, run.accts.st)
        ELSE
        LET paid == DistributeFees(run.accts, validator_pk, run.total_fees)
            body ==
              [number |-> get_field(previous_block, "number") + 1,
               prev_block_hash |-> previous_block.hash,
               timestamp |-> next_timestamp(prev_stamp),
               accounts_hash |-> paid.root_hash,
               transactions_total_fees |-> run.total_fees,
               transaction_limit |-> new_limit(prev_limit, prev_tx_count,
                                               natural_rate),
               transactions_root_hash |->
                   MerkleRoot([i \in 1..Len(effective_txs) |->
                                  TxHash(effective_txs[i])]),
               transactions_count |-> Len(effective_txs),
               delay_difficulty |-> get_field(previous_block, "delay_difficulty"),
               delay_output |-> EMPTY,
               delay_proof |-> EMPTY,
               validator_pk |-> validator_pk,
               signature |-> EMPTY]
        IN  [ok |-> TRUE, err |-> "", block |-> create(body), st |-> paid.st]

-----------------------------------------------------------------------------
(* Block.genesis *)

\* the account set Block.genesis builds, over the node store st
GenesisAccounts(st, validator_addr) ==
    LET stake_root == PatriciaTrie_put(None, validator_addr, to_bytes32(1))
        validator_acct == Account_create(0, EMPTY, 0)
        treasury_acct == Account_create(1, stake_root, 0)
    IN  set_account(set_account(EmptyAccounts(st), validator_addr,
                                validator_acct),
                    TREASURY, treasury_acct)

\* Block.genesis(validator_addr): the block and the node store
genesis(st, validator_addr) ==
    LET accts == GenesisAccounts(st, validator_addr)
        body_kwargs ==
          [number |-> 0,
           prev_block_hash |-> ZERO32,
           timestamp |-> 0,
           accounts_hash |-> accts.root_hash,
           transactions_total_fees |-> 0,
           transaction_limit |-> 0,
           transactions_root_hash |-> ZERO32,
           delay_difficulty |-> 0,
           delay_output |-> EMPTY,
           delay_proof |-> EMPTY,
           validator_pk |-> validator_addr,
           signature |-> EMPTY]
    IN  [block |-> create(body_kwargs), st |-> accts.st]

-----------------------------------------------------------------------------
(* create_genesis_block of consensus/genesis.py; its Block takes the       *)
(* fields as keyword arguments and encodes as the Block of                 *)
(* _consensus/block.py does                                                *)

\* the account trie of create_genesis_block, over the node store st
GenesisTrie(st, validator_pk) ==
    LET stake_root == PatriciaTrie_put(None, validator_pk, _int_to_be_bytes(1))
        treasury == set_account(EmptyAccounts(st), TREASURY_ADDRESS,
                                Account_create(1, stake_root, 0))
        burn == set_account(treasury, BURN, Account_create(0, EMPTY, 0))
    IN  set_account(burn, validator_pk, Account_create(0, EMPTY, 0))

\* create_genesis_block(node, validator_public_key, validator_secret_key)
create_genesis_block(st, validator_public_key, validator_secret_key) ==
    IF BLen(validator_public_key) # 32
    THEN [ok |-> FALSE, err |-> "validator_public_key must be 32 bytes",
          st |-> st]
    ELSE
    LET accounts_trie == GenesisTrie(st, validator_public_key)
        assembled ==
          [NewBlockObject EXCEPT
             !.previous_block_hash = ZERO32,
             !.number = 0,
             !.timestamp = 0,
             !.accounts_hash = accounts_trie.root_hash,
             !.transactions_total_fees = 0,
             !.transactions_hash = ZERO32,
             !.receipts_hash = ZERO32,
             !.delay_difficulty = 0,
             !.delay_output = EMPTY,
             !.validator_public_key = validator_public_key,
             !.signature = EMPTY]
        encoded == [assembled EXCEPT !.body_hash = BodyHash(assembled)]
        signed == [encoded EXCEPT
                     !.signature = Sign(validator_secret_key, encoded.body_hash)]
    IN  [ok |-> TRUE, err |-> "",
         block |-> [signed EXCEPT !.body_hash = BodyHash(signed)],
         st |-> accounts_trie.st]

-----------------------------------------------------------------------------
(* Inputs of the block builder *)

\* the longest chain of builds a behaviour follows
MaxChain == 3

\* natural_rate values a caller passes, in thousandths
NaturalRates == {500, DefaultNaturalRate}

\* (transaction_limit, transactions_count) of the block built upon
PrevMetrics ==
    {<<0, 0>>, <<1, 0>>, <<1, 1>>, <<2, 1>>, <<2, 2>>,
     <<10, 3>>, <<10, 6>>, <<10, 7>>}

\* the genesis account set plus ALICE holding 11 units
FundedAccounts ==
    set_account(GenesisAccounts(EmptyStorage, VALIDATOR), ALICE,
                Account_create(11, EMPTY, 0))

\* a block made by Block.create on top of the genesis block, committing to
\* the funded account set
CreatedPrevious(metrics) ==
    create([number |-> 1,
            prev_block_hash |-> genesis(EmptyStorage, VALIDATOR).block.hash,
            timestamp |-> 5,
            accounts_hash |-> FundedAccounts.root_hash,
            transactions_total_fees |-> 0,
            transaction_limit |-> metrics[1],
            transactions_root_hash |-> ZERO32,
            transactions_count |-> metrics[2],
            delay_difficulty |-> 1,
            delay_output |-> EMPTY,
            delay_proof |-> EMPTY,
            validator_pk |-> VALIDATOR,
            signature |-> EMPTY])

\* candidate transactions: ALICE pays 1 unit with a fee of 4 or 5 under
\* nonce 0 or 1; CAROL, once she holds a unit, burns it
Txs ==
    {Transaction(ALICE, r, 1, f, n) :
        r \in {BURN, TREASURY, CAROL}, f \in {4, 5}, n \in {0, 1}}
    \cup {Transaction(CAROL, BURN, 1, 0, 0)}

\* the candidate transactions with the lower fee, or none
CheapTxs == {t \in Txs : t.fee < 5}

\* the candidate lists offered to build: every list of up to two
\* transactions, and the lists of three with the lower fee
CandidateLists ==
    {<<>>} \cup {<<t>> : t \in Txs} \cup {<<t, u>> : t \in Txs, u \in Txs}
    \cup {<<t, u, v>> : t \in CheapTxs, u \in CheapTxs, v \in CheapTxs}

\* the candidate lists offered along a chain of builds
ChainCandidates == {<<>>} \cup {<<t>> : t \in Txs}

-----------------------------------------------------------------------------
(* Operations of the block builder: block is the block in hand, storage    *)
(* the node store of the account tries, last the call that just returned   *)

\* Block.genesis(validator_addr)
Genesis ==
    /\ block = None
    /\ \E validator_addr \in {VALIDATOR, ALICE, TREASURY} :
          /\ block' = genesis(storage, validator_addr).block
          /\ storage' = genesis(storage, validator_addr).st
          /\ last' = [op |-> "genesis", validator_addr |-> validator_addr]

\* the validator keys handed to create_genesis_block: a key pair's public
\* key, the two reserved addresses, and a key of one byte
GenesisKeys == {VALIDATOR, TREASURY_ADDRESS, BURN, Bytes(<<1>>)}

\* create_genesis_block(node, validator_public_key, validator_secret_key)
CreateGenesisBlock ==
    /\ block = None
    /\ \E validator_public_key \in GenesisKeys, validator_secret_key \in SecretKeys :
          LET r == create_genesis_block(storage, validator_public_key,
                                        validator_secret_key)
          IN  /\ block' = IF r.ok THEN r.block ELSE block
              /\ storage' = r.st
              /\ last' = [op |-> "create_genesis_block", ok |-> r.ok,
                          err |-> r.err,
                          validator_public_key |-> validator_public_key,
                          validator_secret_key |-> validator_secret_key]

\* Block.build(block, transactions, validator_pk=VALIDATOR,
\* natural_rate=...): on success the new block is the block in hand
BuildWith(candidates, rates) ==
    /\ block # None
    /\ \E transactions \in candidates, natural_rate \in rates :
          LET r == build(storage, block, transactions, VALIDATOR, natural_rate)
          IN  /\ last' = [op |-> "build", ok |-> r.ok, err |-> r.err,
                          previous_block |-> block,
                          transactions |-> transactions,
                          natural_rate |-> natural_rate]
              /\ block' = IF r.ok THEN r.block ELSE block
              /\ storage' = r.st

\* one production attempt on the block in hand
Build ==
    /\ last.op \in {"init", "genesis"}
    /\ BuildWith(CandidateLists, NaturalRates)

\* production along a chain: each attempt builds on the block the last
\* one returned
BuildNext ==
    /\ last.op = "build" => last.ok
    /\ block # None
    /\ get_field(block, "number") < MaxChain
    /\ BuildWith(ChainCandidates, {DefaultNaturalRate})

-----------------------------------------------------------------------------
(* One production attempt, on the genesis block or on a created block      *)

InitBuild ==
    /\ \/ /\ block = None
          /\ storage = EmptyStorage
       \/ /\ block \in {CreatedPrevious(m) : m \in PrevMetrics}
          /\ storage = FundedAccounts.st
    /\ last = [op |-> "init"]

NextBuild ==
    \/ Genesis
    \/ CreateGenesisBlock
    \/ Build

SpecBuild == InitBuild /\ [][NextBuild]_vars

-----------------------------------------------------------------------------
(* Chains of blocks made by repeated production                            *)

NextChain ==
    \/ Genesis
    \/ BuildNext

SpecChain == InitBuild /\ [][NextChain]_vars

-----------------------------------------------------------------------------
(* Properties of Block.build; they speak of the state in which a call has  *)
(* just returned: last holds the arguments and the outcome, block the new  *)
(* block when there is one, storage the node store                         *)

Built == last.op = "build"

BuiltBlock == Built /\ last.ok

\* the account set a block commits to, read from the node store
LedgerOf(b) == storage[get_field(b, "accounts_hash")]

\* the account set before the attempt: the one the root id commits to
LedgerBefore == get_field(last.previous_block, "accounts_hash").accounts

BalanceIn(m, a) == IF m[a] = None THEN 0 ELSE m[a].balance

NonceIn(m, a) == IF m[a] = None THEN 0 ELSE m[a].nonce

\* the first n elements of s, all of s when it is shorter
FirstN(s, n) == SubSeq(s, 1, IF Len(s) < n THEN Len(s) ELSE n)

\* max(previous.transaction_limit, 1)
Cap == IF get_field(last.previous_block, "transaction_limit") > 1
       THEN get_field(last.previous_block, "transaction_limit")
       ELSE 1

\* the transactions the attempt is to process
Processed == FirstN(last.transactions, Cap)

\* amount + fee of the transactions of txs sent by a
Paid(txs, a) ==
    LET f[i \in 0..Len(txs)] ==
          IF i = 0 THEN 0
          ELSE f[i - 1] + (IF txs[i].sender = a
                           THEN txs[i].amount + txs[i].fee ELSE 0)
    IN  f[Len(txs)]

\* the amounts of txs addressed to a, none when a is the burn address
Received(txs, a) ==
    LET f[i \in 0..Len(txs)] ==
          IF i = 0 THEN 0
          ELSE f[i - 1] + (IF txs[i].recipient = a /\ a # BURN
                           THEN txs[i].amount ELSE 0)
    IN  f[Len(txs)]

\* the amounts of txs that a sent to the recipient r
SentTo(txs, a, r) ==
    LET f[i \in 0..Len(txs)] ==
          IF i = 0 THEN 0
          ELSE f[i - 1] + (IF txs[i].sender = a /\ txs[i].recipient = r
                           THEN txs[i].amount ELSE 0)
    IN  f[Len(txs)]

\* the number of transactions of txs sent by a
SentCount(txs, a) == Cardinality({i \in 1..Len(txs) : txs[i].sender = a})

\* the sum of the fees of txs
Fees(txs) ==
    LET f[i \in 0..Len(txs)] ==
          IF i = 0 THEN 0 ELSE f[i - 1] + txs[i].fee
    IN  f[Len(txs)]

\* transaction i of txs cannot be paid for by its sender, whose account is
\* the one of m as updated by the transactions before i
Unpayable(m, txs, i) ==
    LET before == SubSeq(txs, 1, i - 1)
        s == txs[i].sender
    IN  \/ m[s] = None /\ Received(before, s) = 0
                       /\ \A j \in 1..(i - 1) : txs[j].recipient # s
        \/ txs[i].nonce # NonceIn(m, s) + SentCount(before, s)
        \/ txs[i].amount + txs[i].fee >
               BalanceIn(m, s) + Received(before, s) - Paid(before, s)

\* C11: if any effective transaction has a missing sender account, a nonce
\* different from the sender's current nonce, or amount + fee above the
\* sender's current balance (as updated by the earlier transactions of the
\* attempt), build raises and returns no block, and the account set behind
\* the previous block's accounts_hash is what it was before the attempt.
C11_AtomicAbort ==
    (Built /\ \E i \in 1..Len(Processed) : Unpayable(LedgerBefore, Processed, i))
        => /\ ~last.ok
           /\ block = last.previous_block
           /\ LedgerOf(last.previous_block) = LedgerBefore

\* an attempt whose second transaction carries the right nonce but exceeds
\* what the first one left has raised, after the first one was applied to
\* the working copy
C11_Witness ==
    /\ Built
    /\ HasField(last.previous_block, "transactions_count")
    /\ Len(Processed) = 2
    /\ ~Unpayable(LedgerBefore, Processed, 1)
    /\ Unpayable(LedgerBefore, Processed, 2)
    /\ Processed[2].nonce = 1
    /\ Processed[2].sender = ALICE
    /\ ~last.ok
    /\ last.err = "ValueError"
    /\ Cardinality(DOMAIN storage) > Cardinality(DOMAIN FundedAccounts.st)
    /\ LedgerOf(last.previous_block) = LedgerBefore

\* C12: build processes exactly the first max(previous.transaction_limit, 1)
\* candidate transactions in order (all of them if fewer are offered); the
\* transactions beyond the cap have no effect on accounts or fees, and the
\* new block's transactions_count is the number processed.
C12_TransactionCap ==
    Built =>
      LET capped == build(storage, last.previous_block, Processed, VALIDATOR,
                          last.natural_rate)
      IN  /\ last.ok = capped.ok
          /\ last.ok =>
               /\ block = capped.block
               /\ get_field(block, "transactions_count") = Len(Processed)
               /\ get_field(block, "transactions_total_fees") = Fees(Processed)
               /\ get_field(block, "transactions_root_hash") =
                      MerkleRoot([i \in 1..Len(Processed) |-> TxHash(Processed[i])])

\* two transactions were offered under a cap of one: the block counts one,
\* carries the first one's fee, and the second, which its sender could not
\* have paid for, did not make the attempt fail
C12_Witness ==
    /\ BuiltBlock
    /\ Len(last.transactions) = 2
    /\ Cap = 1
    /\ get_field(last.previous_block, "transaction_limit") = 0
    /\ Unpayable(LedgerBefore, last.transactions, 2)
    /\ get_field(block, "transactions_count") = 1
    /\ get_field(block, "transactions_total_fees") = last.transactions[1].fee

\* the share of the fees of the processed transactions credited to a
FeeShare(a) ==
    (IF a = BURN THEN Fees(Processed) \div 2 ELSE 0)
    + (IF a = VALIDATOR THEN Fees(Processed) - Fees(Processed) \div 2 ELSE 0)

\* the data of account a in m, empty when there is no account
DataIn(m, a) == IF m[a] = None THEN EMPTY ELSE m[a].data

\* C13: each processed transaction lowers its sender's balance by exactly
\* amount + fee and raises the sender's nonce by exactly 1, leaving the
\* sender's data unchanged; after a successful build a sender's nonce has
\* grown by the number of its processed transactions and no balance is
\* negative.
C13_SenderEffect ==
    BuiltBlock =>
      \A a \in Addresses :
        /\ BalanceIn(LedgerOf(block), a) >= 0
        /\ SentCount(Processed, a) > 0 =>
             /\ LedgerOf(block)[a] # None
             /\ LedgerOf(block)[a].nonce =
                    NonceIn(LedgerBefore, a) + SentCount(Processed, a)
             /\ LedgerOf(block)[a].balance =
                    BalanceIn(LedgerBefore, a) + Received(Processed, a)
                    + FeeShare(a) - Paid(Processed, a)
             /\ LedgerOf(block)[a].data = DataIn(LedgerBefore, a)

\* ALICE sent two transactions that together cost all she had: her nonce
\* went from 0 to 2 and her balance from 11 to 0
C13_Witness ==
    /\ BuiltBlock
    /\ SentCount(Processed, ALICE) = 2
    /\ Paid(Processed, ALICE) = 11
    /\ LedgerBefore[ALICE].nonce = 0
    /\ LedgerOf(block)[ALICE].nonce = 2
    /\ LedgerOf(block)[ALICE].balance = 0

RECURSIVE SumBalances(_, _)
\* the sum of the balances that m holds for the addresses of S
SumBalances(m, S) ==
    IF S = {} THEN 0
    ELSE LET a == CHOOSE x \in S : TRUE
         IN  BalanceIn(m, a) + SumBalances(m, S \ {a})

\* the amounts of txs sent to the burn address
Burned(txs) ==
    LET f[i \in 0..Len(txs)] ==
          IF i = 0 THEN 0
          ELSE f[i - 1] + (IF txs[i].recipient = BURN THEN txs[i].amount ELSE 0)
    IN  f[Len(txs)]

\* the stake sub-trie entry of s in the account set m, None when absent
StakeEntry(m, s) == PatriciaTrie_get(m[TREASURY].data, s)

\* the staked total of s in the account set m
StakeOf(m, s) == int_from_bytes(Or(StakeEntry(m, s), EMPTY))

\* C14: a transaction to the BURN address credits no account; a transaction
\* to the TREASURY address adds amount to the treasury balance and sets the
\* stake sub-trie entry of the sender to the sender's previous staked total
\* plus amount; a transaction to any other address adds amount to the
\* recipient's balance, creating the account with balance = amount,
\* nonce = 0 and empty data if it did not exist.
C14_RecipientRouting ==
    BuiltBlock =>
      /\ SumBalances(LedgerOf(block), Addresses) =
             SumBalances(LedgerBefore, Addresses) - Burned(Processed)
      /\ LedgerOf(block)[TREASURY].balance =
             LedgerBefore[TREASURY].balance + Received(Processed, TREASURY)
      /\ \A s \in Addresses :
           IF SentTo(Processed, s, TREASURY) > 0
           THEN /\ StakeOf(LedgerOf(block), s) =
                       StakeOf(LedgerBefore, s) + SentTo(Processed, s, TREASURY)
                /\ Len(StakeEntry(LedgerOf(block), s).v) = 32
           ELSE StakeEntry(LedgerOf(block), s) = StakeEntry(LedgerBefore, s)
      /\ \A r \in Addresses \ {BURN, TREASURY} :
           Received(Processed, r) > 0 =>
             /\ LedgerOf(block)[r] # None
             /\ LedgerOf(block)[r].balance =
                    BalanceIn(LedgerBefore, r) + Received(Processed, r)
                    + FeeShare(r) - Paid(Processed, r)
             /\ LedgerBefore[r] = None =>
                  /\ LedgerOf(block)[r].nonce = SentCount(Processed, r)
                  /\ LedgerOf(block)[r].data = EMPTY

\* ALICE staked one unit and paid one to CAROL, who had no account and then
\* burned it: the treasury holds 2, ALICE's stake entry is 1, CAROL's
\* account exists with balance 0, and one unit has left the supply
C14_Witness ==
    /\ BuiltBlock
    /\ Len(Processed) = 3
    /\ Processed[1].recipient = TREASURY
    /\ Processed[2].recipient = CAROL
    /\ Processed[3].sender = CAROL
    /\ Processed[3].recipient = BURN
    /\ LedgerBefore[CAROL] = None
    /\ LedgerOf(block)[CAROL] = Account_create(0, EMPTY, 1)
    /\ LedgerOf(block)[TREASURY].balance = 2
    /\ StakeEntry(LedgerBefore, ALICE) = None
    /\ StakeOf(LedgerOf(block), ALICE) = 1
    /\ StakeOf(LedgerOf(block), VALIDATOR) = 1
    /\ SumBalances(LedgerOf(block), Addresses) =
           SumBalances(LedgerBefore, Addresses) - 1

\* what the build credited to a beyond the transfers a took part in
FeeCredit(a) ==
    BalanceIn(LedgerOf(block), a) - BalanceIn(LedgerBefore, a)
    - Received(Processed, a) + Paid(Processed, a)

\* C15: with total_fees the sum of the fees of the processed transactions,
\* the BURN account is credited total_fees // 2 and the validator account
\* total_fees - total_fees // 2, so the two credits sum to total_fees and
\* the validator share is the larger by at most 1 (total_fees = 9 gives
\* burn 4 and reward 5); the block's transactions_total_fees is total_fees.
C15_FeeSplit ==
    BuiltBlock =>
      LET total_fees == Fees(Processed) IN
      /\ FeeCredit(BURN) = total_fees \div 2
      /\ FeeCredit(VALIDATOR) = total_fees - total_fees \div 2
      /\ FeeCredit(BURN) + FeeCredit(VALIDATOR) = total_fees
      /\ FeeCredit(VALIDATOR) - FeeCredit(BURN) \in {0, 1}
      /\ \A a \in Addresses \ {BURN, VALIDATOR} : FeeCredit(a) = 0
      /\ get_field(block, "transactions_total_fees") = total_fees

\* fees of 4 and 5 were collected: the burn account, which did not exist,
\* holds 4 and the validator 5
C15_Witness ==
    /\ BuiltBlock
    /\ Fees(Processed) = 9
    /\ LedgerBefore[BURN] = None
    /\ LedgerOf(block)[BURN] = Account_create(4, EMPTY, 0)
    /\ LedgerBefore[VALIDATOR].balance = 0
    /\ LedgerOf(block)[VALIDATOR].balance = 5
    /\ get_field(block, "transactions_total_fees") = 9

\* previous.transaction_limit and previous.transactions_count of the attempt
PrevLimit == get_field(last.previous_block, "transaction_limit")

PrevCount == get_field(last.previous_block, "transactions_count")

\* C16: with threshold = previous.transaction_limit * natural_rate, the new
\* block's transaction_limit is previous.transactions_count when that count
\* is above the threshold, max(1, floor(previous.transaction_limit *
\* natural_rate)) when it is below, and previous.transaction_limit when it
\* equals the threshold; it depends on the previous block's limit and count
\* only, not on the transactions offered.
C16_AdaptiveLimit ==
    BuiltBlock =>
      LET limit == get_field(block, "transaction_limit")
          floored == (PrevLimit * last.natural_rate) \div 1000
      IN  /\ PrevCount * 1000 > PrevLimit * last.natural_rate
                => limit = PrevCount
          /\ PrevCount * 1000 < PrevLimit * last.natural_rate
                => limit = IF floored > 1 THEN floored ELSE 1
          /\ PrevCount * 1000 = PrevLimit * last.natural_rate
                => limit = PrevLimit

\* a count of 1 under a limit of 2 and a rate of 0.5 is at the threshold:
\* the limit stays 2 although this build processed no transaction
C16_Witness ==
    /\ BuiltBlock
    /\ PrevLimit = 2
    /\ PrevCount = 1
    /\ last.natural_rate = 500
    /\ Len(Processed) = 0
    /\ get_field(block, "transaction_limit") = 2

\* the build of a worked example: limit 10, natural_rate 0.618, count c
Example(c) ==
    /\ BuiltBlock
    /\ last.natural_rate = DefaultNaturalRate
    /\ PrevLimit = 10
    /\ PrevCount = c

\* C17 as stated: with previous.transaction_limit = 10 and natural_rate =
\* 0.618, build yields new_limit = 7 for a previous count of 7, 6 for a
\* count of 3, and 10 (unchanged) for a count of 6.
C17_WorkedExample ==
    /\ Example(7) => get_field(block, "transaction_limit") = 7
    /\ Example(3) => get_field(block, "transaction_limit") = 6
    /\ Example(6) => get_field(block, "transaction_limit") = 10

\* C17 as amended: with previous.transaction_limit = 10 and natural_rate =
\* 0.618, build yields new_limit = 7 for a previous count of 7, 6 for a
\* count of 3, and 6 for a count of 6, which is below the threshold 6.18.
C17_WorkedExampleAmended ==
    /\ Example(7) => get_field(block, "transaction_limit") = 7
    /\ Example(3) => get_field(block, "transaction_limit") = 6
    /\ Example(6) => get_field(block, "transaction_limit") = 6

\* a block was built on a block with limit 10 and count 6: its limit is 6
C17_Witness ==
    /\ Example(6)
    /\ get_field(block, "transaction_limit") = 6

\* C18: every block produced by build has transaction_limit >= 1, for every
\* previous block, the genesis block (whose transaction_limit is 0)
\* included, and for every previous transactions_count.
C18_CapacityFloor ==
    BuiltBlock => get_field(block, "transaction_limit") >= 1

\* the built block b with its predecessor attached, as the validator of
\* _consensus/block.py reads it
AsSuccessor(b, previous) ==
    [NewBlockObject EXCEPT
       !.previous_block_hash = get_field(b, "prev_block_hash"),
       !.timestamp = get_field(b, "timestamp"),
       !.previous_block = [hash |-> previous.hash,
                           timestamp |-> get_field(previous, "timestamp")]]

\* C19: the new block has number = previous.number + 1, timestamp =
\* previous.timestamp + 1 and prev_block_hash = previous.hash, so along a
\* chain of builds numbers are consecutive, timestamps strictly increase,
\* and every built block passes the validator's timestamp rule against its
\* predecessor.
C19_ChainLinkage ==
    BuiltBlock =>
      /\ get_field(block, "number") = get_field(last.previous_block, "number") + 1
      /\ get_field(block, "timestamp") =
             get_field(last.previous_block, "timestamp") + 1
      /\ get_field(block, "prev_block_hash") = last.previous_block.hash
      /\ get_field(block, "timestamp") - get_field(block, "number") =
             get_field(CreatedPrevious(<<0, 0>>), "timestamp")
             - get_field(CreatedPrevious(<<0, 0>>), "number")
      /\ TimestampCheck(AsSuccessor(block, last.previous_block), EmptyStorage,
                        "node").out = "valid"

\* a block built on a built block: the second link of a chain
C19_Witness ==
    /\ BuiltBlock
    /\ get_field(last.previous_block, "number") =
           get_field(CreatedPrevious(<<0, 0>>), "number") + 1
    /\ get_field(block, "number") =
           get_field(CreatedPrevious(<<0, 0>>), "number") + 2
    /\ get_field(block, "timestamp") =
           get_field(CreatedPrevious(<<0, 0>>), "timestamp") + 2
    /\ get_field(block, "prev_block_hash") = last.previous_block.hash

\* the account set holds, besides nothing else, a treasury account at
\* treasury with balance 1 and the stake root as data, whose stake sub-trie
\* has the validator with stake 1 as its only entry, a burn account and a
\* validator account with balance 0
GenesisLedger(m, treasury, validator) ==
    /\ m[treasury] # None
    /\ m[treasury].balance = 1
    /\ m[treasury].data.k = "trie"
    /\ \A a \in Addresses :
          IF a = validator
          THEN /\ PatriciaTrie_get(m[treasury].data, a) # None
               /\ int_from_bytes(PatriciaTrie_get(m[treasury].data, a)) = 1
          ELSE PatriciaTrie_get(m[treasury].data, a) = None
    /\ m[BURN] # None
    /\ m[BURN].balance = 0
    /\ m[validator] # None
    /\ m[validator].balance = 0
    /\ \A a \in Addresses \ {treasury, BURN, validator} : m[a] = None

\* C20: the genesis block has number 0 and previous_block_hash = ZERO32; its
\* stake sub-trie holds exactly one entry, the validator with stake 1; its
\* account set holds a treasury account with balance 1 whose data_hash is
\* the stake sub-trie root, a burn account with balance 0 and a validator
\* account with balance 0, and nothing else; and it carries a signature
\* over its body_hash.
C20_GenesisState ==
    /\ last.op = "genesis" =>
         /\ get_field(block, "number") = 0
         /\ get_field(block, "prev_block_hash") = ZERO32
         /\ GenesisLedger(LedgerOf(block), TREASURY, last.validator_addr)
         /\ get_field(block, "signature").k = "sig"
    /\ (last.op = "create_genesis_block" /\ last.ok) =>
         /\ block.number = 0
         /\ block.previous_block_hash = ZERO32
         /\ GenesisLedger(storage[block.accounts_hash], TREASURY_ADDRESS,
                          last.validator_public_key)
         /\ block.signature.k = "sig"
         /\ block.signature.msg = block.body_hash
         /\ block.body_hash = BodyHash(block)

-----------------------------------------------------------------------------
(* Patricia trie lookup of astreum/utils/patricia.py.  A trie object is    *)
(* [root_hash, nodes]: the root id and the cache of decoded nodes; the     *)
(* collaborator behind node_get is a mapping from ids to encoded nodes.    *)

\* PatriciaNode(key_len, key, value, child_0, child_1)
PatriciaNode(key_len, key, value, child_0, child_1) ==
    [key_len |-> key_len, key |-> key, value |-> value,
     child_0 |-> child_0, child_1 |-> child_1]

\* node.to_bytes(): the encoding of the list of the five fields
Node_to_bytes(node) ==
    [k |-> "encoded",
     fields |-> <<node.key_len, node.key, node.value, node.child_0,
                  node.child_1>>]

\* PatriciaNode.from_bytes(blob)
Node_from_bytes(blob) ==
    PatriciaNode(blob.fields[1], blob.fields[2], blob.fields[3],
                 blob.fields[4], blob.fields[5])

\* node.hash(): blake3 of the encoded node
Node_hash(node) == Digest(<<Node_to_bytes(node)>>)

\* buf[idx // 8] exists: _bit(buf, idx) raises no IndexError (idx >= 0)
BitInRange(buf, idx) == idx \div 8 < Len(buf.v)

\* _bit(buf, idx): bit idx of buf, the most significant bit of a byte first
_bit(buf, idx) == (buf.v[(idx \div 8) + 1] \div (2 ^ (7 - (idx % 8)))) % 2 = 1

\* _match_prefix without the test of the remaining key length
_match_prefixUnbounded(prefix, prefix_len, key, key_bit_offset) ==
    LET differs(i) == \/ ~BitInRange(prefix, i)
                      \/ ~BitInRange(key, key_bit_offset + i)
                      \/ _bit(prefix, i) # _bit(key, key_bit_offset + i)
        stops == {i \in 0..(prefix_len - 1) : differs(i)}
        first == CHOOSE i \in stops : \A j \in stops : i <= j
    IN  IF stops = {} THEN "True"
        ELSE IF ~BitInRange(prefix, first) \/ ~BitInRange(key, key_bit_offset + first)
             THEN "IndexError"
        ELSE "False"

\* _match_prefix(prefix, prefix_len, key, key_bit_offset): "True", "False",
\* or the IndexError of _bit when key_len counts more bits than prefix holds
_match_prefix(prefix, prefix_len, key, key_bit_offset) ==
    IF key_bit_offset + prefix_len > Len(key.v) * 8 THEN "False"
    ELSE LET differs(i) == \/ ~BitInRange(prefix, i)
                           \/ _bit(prefix, i) # _bit(key, key_bit_offset + i)
             stops == {i \in 0..(prefix_len - 1) : differs(i)}
             first == CHOOSE i \in stops : \A j \in stops : i <= j
         IN  IF stops = {} THEN "True"
             ELSE IF ~BitInRange(prefix, first) THEN "IndexError"
             ELSE "False"

\* self._node_get(h) over the mapping store
node_get(store, h) == IF h \in DOMAIN store THEN store[h] ELSE None

\* _fetch(h): the cached node, or the decoded node_get(h), which is cached;
\* None when node_get has nothing
_fetch(nodes, store, h) ==
    IF h \in DOMAIN nodes THEN [node |-> nodes[h], nodes |-> nodes]
    ELSE LET raw == node_get(store, h) IN
         IF raw = None THEN [node |-> None, nodes |-> nodes]
         ELSE [node |-> Node_from_bytes(raw),
               nodes |-> StorageSet(nodes, h, Node_from_bytes(raw))]

\* the bits 1..n of a bytes value, as 0 and 1
BitsOf(buf, n) == [i \in 1..n |-> IF _bit(buf, i - 1) THEN 1 ELSE 0]

\* all the bits of a key
KeyBits(key) == BitsOf(key, Len(key.v) * 8)

\* get has returned result; nodes is the cache it leaves, visited the number
\* of nodes the loop looked at, path the prefix and routing bits it followed
Returned(result, nodes, visited, path) ==
    [status |-> "returned", node |-> None, key_pos |-> 0, result |-> result,
     nodes |-> nodes, visited |-> visited, path |-> path]

\* get is about to look at node with key_pos bits of the key consumed
Looking(node, key_pos, nodes, visited, path) ==
    [status |-> "looking", node |-> node, key_pos |-> key_pos,
     result |-> None, nodes |-> nodes, visited |-> visited, path |-> path]

\* an exception left get
GetRaised(err, nodes, visited, path) ==
    [status |-> err, node |-> None, key_pos |-> 0, result |-> None,
     nodes |-> nodes, visited |-> visited, path |-> path]

\* get(key) up to the loop: the root is fetched
GetBegin(trie, store, key) ==
    IF trie.root_hash = None THEN Returned(None, trie.nodes, 0, <<>>)
    ELSE LET f == _fetch(trie.nodes, store, trie.root_hash) IN
         IF f.node = None THEN Returned(None, f.nodes, 0, <<>>)
         ELSE Looking(f.node, 0, f.nodes, 0, <<>>)

\* key_pos += 1 left out
AfterRoutingBitStuck(key_pos) == key_pos

\* key_pos += 1: the routing bit is consumed
AfterRoutingBit(key_pos) == key_pos + 1

\* the node is returned whether or not it holds a value
FoundNodeValueless(node) == node

\* return node if node.value is not None else None
FoundNode(node) == IF node.value # None THEN node ELSE None

\* one turn of the loop of get, at c.node
LoopStep(store, key, c) ==
    LET node == c.node
        visited == c.visited + 1
        matched == _match_prefix(node.key, node.key_len, key, c.key_pos)
        key_pos == c.key_pos + node.key_len
        path == c.path \o BitsOf(node.key, node.key_len)
    IN  IF matched = "IndexError"
        THEN GetRaised("IndexError", c.nodes, visited, c.path)
        ELSE IF matched = "False"
        THEN Returned(None, c.nodes, visited, c.path)
        ELSE IF key_pos = Len(key.v) * 8
        THEN Returned(FoundNode(node), c.nodes, visited, path)
        ELSE IF ~BitInRange(key, key_pos)
        THEN Returned(None, c.nodes, visited, path)
        ELSE
        LET next_bit == _bit(key, key_pos)
            child_hash == IF next_bit THEN node.child_1 ELSE node.child_0
            f == _fetch(c.nodes, store, child_hash)
        IN  IF child_hash = None THEN Returned(None, c.nodes, visited, path)
            ELSE IF f.node = None THEN Returned(None, f.nodes, visited, path)
            ELSE Looking(f.node, AfterRoutingBit(key_pos), f.nodes, visited,
                         Append(path, IF next_bit THEN 1 ELSE 0))

RECURSIVE RunLoop(_, _, _)
\* the loop of get, run until get returns or raises
RunLoop(store, key, c) ==
    IF c.status # "looking" THEN c ELSE RunLoop(store, key, LoopStep(store, key, c))

\* trie.get(key): the outcome of the whole call
get(trie, store, key) == RunLoop(store, key, GetBegin(trie, store, key))

\* the value a lookup yields: that of the node returned, None for None
ValueOf(result) == IF result = None THEN None ELSE result.value

-----------------------------------------------------------------------------
(* put of the trie, as the design describes it: the nodes on the path are  *)
(* rebuilt, every other node is reused                                     *)

\* bit n of bits, 0 past its end
BitAt(bits, n) == IF n <= Len(bits) THEN bits[n] ELSE 0

\* the bytes that hold bits, most significant bit first, padded with 0
PackBits(bits) ==
    Bytes([j \in 1..((Len(bits) + 7) \div 8) |->
             128 * BitAt(bits, 8 * j - 7) + 64 * BitAt(bits, 8 * j - 6)
             + 32 * BitAt(bits, 8 * j - 5) + 16 * BitAt(bits, 8 * j - 4)
             + 8 * BitAt(bits, 8 * j - 3) + 4 * BitAt(bits, 8 * j - 2)
             + 2 * BitAt(bits, 8 * j - 1) + BitAt(bits, 8 * j)])

\* the node whose prefix is bits
NodeOver(bits, value, child_0, child_1) ==
    PatriciaNode(Len(bits), PackBits(bits), value, child_0, child_1)

\* the number of leading bits p and q share
CommonLen(p, q) ==
    LET most == IF Len(p) < Len(q) THEN Len(p) ELSE Len(q)
    IN  CHOOSE c \in 0..most :
            /\ \A i \in 1..c : p[i] = q[i]
            /\ c = most \/ p[c + 1] # q[c + 1]

\* a node written to the cache: its id and the cache that holds it
Written(nodes, node) ==
    [hash |-> Node_hash(node), nodes |-> StorageSet(nodes, Node_hash(node), node)]

RECURSIVE Insert(_, _, _, _)
\* the subtree at id h, with value stored under the remaining key bits
Insert(nodes, h, bits, value) ==
    IF h = None THEN Written(nodes, NodeOver(bits, value, None, None))
    ELSE
    LET node == nodes[h]
        p == BitsOf(node.key, node.key_len)
        c == CommonLen(p, bits)
    IN  IF c = Len(p) /\ c = Len(bits)
        THEN Written(nodes, [node EXCEPT !.value = value])
        ELSE IF c = Len(p)
        THEN LET rest == SubSeq(bits, c + 2, Len(bits))
                 sub == Insert(nodes, IF bits[c + 1] = 1 THEN node.child_1
                                      ELSE node.child_0, rest, value)
             IN  Written(sub.nodes,
                         IF bits[c + 1] = 1 THEN [node EXCEPT !.child_1 = sub.hash]
                         ELSE [node EXCEPT !.child_0 = sub.hash])
        ELSE
        LET lower == Written(nodes, NodeOver(SubSeq(p, c + 2, Len(p)), node.value,
                                             node.child_0, node.child_1))
        IN  IF c = Len(bits)
            THEN Written(lower.nodes,
                         NodeOver(bits, value,
                                  IF p[c + 1] = 0 THEN lower.hash ELSE None,
                                  IF p[c + 1] = 1 THEN lower.hash ELSE None))
            ELSE
            LET leaf == Written(lower.nodes,
                                NodeOver(SubSeq(bits, c + 2, Len(bits)), value,
                                         None, None))
            IN  Written(leaf.nodes,
                        NodeOver(SubSeq(bits, 1, c), None,
                                 IF p[c + 1] = 0 THEN lower.hash ELSE leaf.hash,
                                 IF p[c + 1] = 1 THEN lower.hash ELSE leaf.hash))

\* trie.put(key, value): the trie with the new root
put(trie, key, value) ==
    LET r == Insert(trie.nodes, trie.root_hash, KeyBits(key), value)
    IN  [root_hash |-> r.hash, nodes |-> r.nodes]

\* PatriciaTrie(node_get=..., root_hash=None): no node, no root
EmptyTrie == [root_hash |-> None, nodes |-> EmptyStorage]

-----------------------------------------------------------------------------
(* A trie filled by put and read by get                                    *)

\* the longest sequence of put calls a behaviour makes
MaxPuts == 3

\* keys of varying byte lengths: b"", b"\x00", b"\x01", b"\x10" and
\* b"\x00\x01"; b"" and b"\x00" are proper prefixes of b"\x00\x01"
TrieKeys ==
    {Bytes(<<>>), Bytes(<<0>>), Bytes(<<1>>), Bytes(<<16>>), Bytes(<<0, 1>>)}

\* the values stored: b"a" and b"b"
TrieValues == {Bytes(<<97>>), Bytes(<<98>>)}

\* what the calls made so far should have left under each key
NothingHeld == [k \in TrieKeys |-> None]

InitTrie ==
    /\ block = EmptyTrie
    /\ storage = EmptyStorage
    /\ last = [op |-> "PatriciaTrie", key |-> None, value |-> None,
               outcome |-> Returned(None, EmptyStorage, 0, <<>>),
               before |-> EmptyTrie, held |-> NothingHeld, puts |-> 0]

\* trie.put(key, value)
Put ==
    /\ last.puts < MaxPuts
    /\ \E key \in TrieKeys, value \in TrieValues :
          /\ block' = put(block, key, value)
          /\ last' = [op |-> "put", key |-> key, value |-> value,
                      outcome |-> Returned(None, block.nodes, 0, <<>>),
                      before |-> block,
                      held |-> [last.held EXCEPT ![key] = value],
                      puts |-> last.puts + 1]
    /\ UNCHANGED storage

\* trie.get(key): the nodes it fetched stay in the cache
Get ==
    /\ \E key \in TrieKeys :
          LET outcome == get(block, storage, key)
          IN  /\ block' = [block EXCEPT !.nodes = outcome.nodes]
              /\ last' = [last EXCEPT !.op = "get", !.key = key,
                                      !.value = None, !.outcome = outcome,
                                      !.before = block]
    /\ UNCHANGED storage

NextTrie ==
    \/ Put
    \/ Get

SpecTrie == InitTrie /\ [][NextTrie]_vars

-----------------------------------------------------------------------------
(* get over any node graph: the nodes behind node_get are whatever the     *)
(* collaborator holds, so pointers may dangle or form cycles               *)

\* ids of nodes; nothing is ever stored under H3
H1 == [k |-> "id", n |-> 1]

H2 == [k |-> "id", n |-> 2]

H3 == [k |-> "id", n |-> 3]

\* (key_len, key) of a node: prefixes of 0, 3, 4, 7, 8 and 16 bits, and one
\* whose key_len of 16 counts more bits than its key of one byte holds
NodePrefixes ==
    {<<0, Bytes(<<>>)>>, <<3, Bytes(<<160>>)>>, <<4, Bytes(<<176>>)>>,
     <<7, Bytes(<<154>>)>>, <<8, Bytes(<<171>>)>>,
     <<16, Bytes(<<171, 205>>)>>, <<16, Bytes(<<171>>)>>}

\* (child_0, child_1) of a node
NodeChildren ==
    {<<None, None>>, <<H1, H1>>, <<H2, H2>>, <<H2, None>>, <<None, H2>>,
     <<H3, H3>>}

\* the nodes a collaborator may hold
StoredNodes ==
    {PatriciaNode(p[1], p[2], v, c[1], c[2]) :
        p \in NodePrefixes, v \in {None, Bytes(<<97>>)}, c \in NodeChildren}

\* the keys looked up: b"\xab" and b"\xab\xcd"
LookupKeys == {Bytes(<<171>>), Bytes(<<171, 205>>)}

\* the mappings behind node_get: a node under H1, and one or none under H2
NodeStores ==
    {(H1 :> Node_to_bytes(a)) : a \in StoredNodes}
    \cup {(H1 :> Node_to_bytes(a)) @@ (H2 :> Node_to_bytes(b)) :
             a \in StoredNodes, b \in StoredNodes}

\* no call made yet
NotCalled == Returned(None, EmptyStorage, 0, <<>>)

InitLookup ==
    /\ \/ /\ block = [root_hash |-> H1, nodes |-> EmptyStorage]
          /\ storage \in NodeStores
       \/ /\ block \in {[root_hash |-> h, nodes |-> EmptyStorage] : h \in {None, H3}}
          /\ storage = EmptyStorage
    /\ last = [op |-> "PatriciaTrie", key |-> None, outcome |-> NotCalled,
               before |-> NotCalled]

\* trie.get(key) is called: the root is fetched
GetCall ==
    /\ last.op = "PatriciaTrie"
    /\ \E key \in LookupKeys :
          LET c == GetBegin(block, storage, key)
          IN  /\ last' = [op |-> "get", key |-> key, outcome |-> c,
                          before |-> NotCalled]
              /\ block' = [block EXCEPT !.nodes = c.nodes]
    /\ UNCHANGED storage

\* one turn of the loop of the call in progress
GetTurn ==
    /\ last.op = "get"
    /\ last.outcome.status = "looking"
    /\ LET c == LoopStep(storage, last.key, last.outcome)
       IN  /\ last' = [last EXCEPT !.outcome = c, !.before = last.outcome]
           /\ block' = [block EXCEPT !.nodes = c.nodes]
    /\ UNCHANGED storage

NextLookup ==
    \/ GetCall
    \/ GetTurn

SpecLookup == InitLookup /\ [][NextLookup]_vars

\* key_len counts no more bits than key holds
WellFormed(node) == node.key_len <= Len(node.key.v) * 8

\* the id h can be fetched: it is cached or node_get has it
Fetchable(nodes, store, h) == h \in DOMAIN nodes \/ h \in DOMAIN store

\* what the lookup rule says of a turn at a well-formed node c.node with
\* c.key_pos bits consumed: "absent", "found", or "descend"
RuleAt(store, key, c) ==
    LET P == BitsOf(c.node.key, c.node.key_len)
        K == KeyBits(key)
        pos == c.key_pos
        child == IF K[pos + Len(P) + 1] = 1 THEN c.node.child_1
                 ELSE c.node.child_0
    IN  IF pos + Len(P) > Len(K) THEN "absent"
        ELSE IF \E i \in 1..Len(P) : P[i] # K[pos + i] THEN "absent"
        ELSE IF pos + Len(P) = Len(K)
             THEN (IF c.node.value = None THEN "absent" ELSE "found")
        ELSE IF child = None THEN "absent"
        ELSE IF ~Fetchable(c.nodes, store, child) THEN "absent"
        ELSE "descend"

-----------------------------------------------------------------------------
(* Atom identity of astreum/_node.py *)

\* Atom(data, next, size): size is len(data) when none is given
Atom_init(data, next, size) ==
    [data |-> data, next_id |-> next,
     size |-> IF size = NoneInt THEN BLen(data) ELSE size]

\* data of an atom: b"", b"\x01", b"\x01\x02"
AtomData == {EMPTY, Bytes(<<1>>), Bytes(<<1, 2>>)}

\* next of an atom: ZERO32 or the id of another atom
AtomNexts ==
    {ZERO32, object_id(Atom_init(EMPTY, ZERO32, NoneInt)),
     object_id(Atom_init(Bytes(<<1>>), ZERO32, NoneInt))}

\* size of an atom: the default, or a number given
AtomSizes == {NoneInt, 0, 1, 2, 256, 65536}

InitAtom ==
    /\ block = None
    /\ storage = EmptyStorage
    /\ last = [op |-> "init", id |-> None, earlier |-> None]

\* an atom is made and its id is taken; the atom made before is kept
NewAtom ==
    /\ \E data \in AtomData, next \in AtomNexts, size \in AtomSizes :
          /\ block' = Atom_init(data, next, size)
          /\ last' = [op |-> "Atom",
                      id |-> object_id(Atom_init(data, next, size)),
                      earlier |-> block]
    /\ UNCHANGED storage

NextAtom == NewAtom

SpecAtom == InitAtom /\ [][NextAtom]_vars

\* C23: object_id is hash(hash(data) || next || little_endian_u64(size)), a
\* function of the triple alone: two atoms have the same id if and only if
\* they agree on data, next and size.
C23_AtomIdentity ==
    last.op = "Atom" =>
        /\ last.id = Digest(<<Digest(<<block.data>>), block.next_id,
                              LittleEndian(block.size, 8)>>)
        /\ last.id = object_id(block)
        /\ last.earlier # None =>
              (object_id(last.earlier) = last.id
                 <=> /\ last.earlier.data = block.data
                     /\ last.earlier.next_id = block.next_id
                     /\ last.earlier.size = block.size)

\* two atoms that differ in nothing but their size have different ids
C23_Witness ==
    /\ last.op = "Atom"
    /\ last.earlier # None
    /\ last.earlier.data = block.data
    /\ last.earlier.next_id = block.next_id
    /\ last.earlier.size # block.size
    /\ object_id(last.earlier) # last.id

-----------------------------------------------------------------------------
(* storage_get of astreum/storage/actions/get.py.  The node's storage is   *)
(* [hot_storage, hot_storage_hits, cold_storage_path, files]: files is the *)
(* content of the cold storage directory, by key.                          *)

\* the most hot storage hits counted for one key
MaxHits == 2

\* keys asked for
StorageKeys == {H1, H2}

\* atom.to_bytes(): the next pointer followed by the data
Atom_to_bytes(a) == [k |-> "buf", next |-> a.next_id, data |-> a.data]

\* the ValueError of Atom.from_bytes
AtomValueError == [k |-> "ValueError"]

\* Atom.from_bytes(buf): a buffer shorter than the 32-byte pointer cannot be
\* decoded
Atom_from_bytes(buf) ==
    IF buf.k = "bytes" THEN AtomValueError
    ELSE Atom_init(buf.data, buf.next, NoneInt)

\* no file of that name in the directory
NoFile == [k |-> "FileNotFoundError"]

\* a file that cannot be read
UnreadableFile == [k |-> "OSError"]

\* a file that is too short to hold an atom
CorruptFile == Bytes(<<1, 2, 3>>)

\* the atom kept in the model's stores
StoredAtom == Atom_init(Bytes(<<1>>), ZERO32, NoneInt)

\* _hot_storage_get(key): the atom or None, and the hit counted
_hot_storage_get(st, key) ==
    IF st.hot_storage[key] # None
    THEN [atom |-> st.hot_storage[key],
          st |-> [st EXCEPT !.hot_storage_hits[key] = @ + 1]]
    ELSE [atom |-> None, st |-> st]

\* _cold_storage_get(key): the decoded file, None when cold storage is off,
\* the file is missing or unreadable, or its bytes do not decode
_cold_storage_get(st, key) ==
    IF ~st.cold_storage_path THEN None
    ELSE IF st.files[key] \in {NoFile, UnreadableFile} THEN None
    ELSE IF Atom_from_bytes(st.files[key]) = AtomValueError THEN None
    ELSE Atom_from_bytes(st.files[key])

\* _network_get(key): not implemented, None
_network_get(st, key) == None

\* storage_get(key): hot storage, then cold storage, then the network
storage_get_tiers(st, key) ==
    LET hot == _hot_storage_get(st, key)
        cold == _cold_storage_get(st, key)
    IN  IF hot.atom # None THEN [atom |-> hot.atom, st |-> hot.st]
        ELSE IF cold # None THEN [atom |-> cold, st |-> hot.st]
        ELSE [atom |-> _network_get(st, key), st |-> hot.st]

InitStorageGet ==
    /\ block = None
    /\ storage \in
          [hot_storage : [StorageKeys -> {None, StoredAtom}],
           hot_storage_hits : {[k \in StorageKeys |-> 0]},
           cold_storage_path : BOOLEAN,
           files : [StorageKeys -> {NoFile, UnreadableFile, CorruptFile,
                                    Atom_to_bytes(StoredAtom)}]]
    /\ last = [op |-> "init", key |-> None, atom |-> None]

\* node.storage_get(key)
StorageGet ==
    /\ \E key \in StorageKeys :
          /\ storage.hot_storage_hits[key] < MaxHits
          /\ storage' = storage_get_tiers(storage, key).st
          /\ last' = [op |-> "storage_get", key |-> key,
                      atom |-> storage_get_tiers(storage, key).atom]
    /\ UNCHANGED block

NextStorageGet == StorageGet

SpecStorageGet == InitStorageGet /\ [][NextStorageGet]_vars

\* the key is in no tier: not in hot storage and no file under its name
InNoTier(st, key) == st.hot_storage[key] = None /\ st.files[key] = NoFile

\* the key has a file whose bytes are no atom, and hot storage lacks it
UndecodableInCold(st, key) ==
    /\ st.hot_storage[key] = None
    /\ st.cold_storage_path
    /\ st.files[key] = CorruptFile

\* C24: storage_get tells a miss from a decode failure: for a key whose cold
\* storage file cannot be decoded as an atom the outcome differs from the
\* outcome for a key that is in no tier.
C24_MissVsDecodeFailure ==
    (last.op = "storage_get" /\ UndecodableInCold(storage, last.key)) =>
        \A other \in StorageKeys :
            InNoTier(storage, other) =>
                storage_get_tiers(storage, other).atom # last.atom

-----------------------------------------------------------------------------
(* The integer fields of a block, encoded and decoded *)

\* the largest of the consecutive integers encoded
MaxFieldValue == 300

\* the integers handed to _int_to_be_bytes: None, 0..MaxFieldValue, and
\* the values around the widths of 2, 3 and 4 bytes
FieldValues ==
    {NoneInt} \cup 0..MaxFieldValue
    \cup {65535, 65536, 16777215, 16777216, 2147483647}

InitIntCodec ==
    /\ block = None
    /\ storage = EmptyStorage
    /\ last = [op |-> "init", n |-> NoneInt, encoded |-> EMPTY, decoded |-> 0]

\* _be_bytes_to_int(_int_to_be_bytes(n))
EncodeInt ==
    /\ \E n \in FieldValues :
          last' = [op |-> "_int_to_be_bytes", n |-> n,
                   encoded |-> _int_to_be_bytes(n),
                   decoded |-> _be_bytes_to_int(_int_to_be_bytes(n))]
    /\ UNCHANGED <<block, storage>>

NextIntCodec == EncodeInt

SpecIntCodec == InitIntCodec /\ [][NextIntCodec]_vars

\* the fewest bytes that hold n > 0
MinimalWidth(n) ==
    IF n < 256 THEN 1 ELSE IF n < 65536 THEN 2 ELSE IF n < 16777216 THEN 3 ELSE 4

\* the number that the bytes s of at most four digits spell, big-endian
Spelled(s) ==
    LET digit(i) == IF i <= Len(s) THEN s[Len(s) + 1 - i] ELSE 0
    IN  digit(1) + 256 * digit(2) + 65536 * digit(3) + 16777216 * digit(4)

\* C25: a non-negative integer n encodes to one zero byte when n = 0 and
\* otherwise to its big-endian bytes with no leading zero byte; an absent
\* integer encodes to the empty string; decoding the encoding of a present
\* n >= 0 returns n; the encodings of absent and of 0 differ.
C25_IntegerEncoding ==
    /\ _int_to_be_bytes(NoneInt) # _int_to_be_bytes(0)
    /\ last.op = "_int_to_be_bytes" =>
          /\ last.n = NoneInt => last.encoded = EMPTY
          /\ last.n = 0 => last.encoded = Bytes(<<0>>)
          /\ last.n > 0 =>
                /\ Len(last.encoded.v) = MinimalWidth(last.n)
                /\ last.encoded.v[1] # 0
                /\ \A i \in 1..Len(last.encoded.v) : last.encoded.v[i] \in 0..255
                /\ Spelled(last.encoded.v) = last.n
          /\ last.n # NoneInt => last.decoded = last.n

\* 256 is encoded as the two bytes 01 00 and decoded to 256
C25_Witness ==
    /\ last.op = "_int_to_be_bytes"
    /\ last.n = 256
    /\ last.encoded = Bytes(<<1, 0>>)
    /\ last.decoded = 256

-----------------------------------------------------------------------------
(* Supply and capacity over builds *)

\* C26: after every successful build the sum of all account balances equals
\* the sum before minus the amounts of the processed transactions sent to
\* BURN; the fees are moved from the senders to the BURN and validator
\* accounts, none is created or destroyed.
C26_SupplyConservation ==
    BuiltBlock =>
      /\ SumBalances(LedgerOf(block), Addresses)
            = SumBalances(LedgerBefore, Addresses) - Burned(Processed)
      /\ (BalanceIn(LedgerOf(block), BURN) - BalanceIn(LedgerBefore, BURN))
         + (BalanceIn(LedgerOf(block), VALIDATOR)
            - BalanceIn(LedgerBefore, VALIDATOR))
            = Fees(Processed) + Received(Processed, VALIDATOR)
              - Paid(Processed, VALIDATOR) - Paid(Processed, BURN)
      /\ \A a \in Addresses : BalanceIn(LedgerOf(block), a) >= 0

\* a unit was burnt and a unit transferred, with fees of 9: the supply fell
\* by the burnt unit alone
C26_Witness ==
    /\ BuiltBlock
    /\ Len(Processed) = 2
    /\ Burned(Processed) = 1
    /\ Fees(Processed) = 9
    /\ Received(Processed, CAROL) = 1
    /\ SumBalances(LedgerBefore, Addresses) = 12
    /\ SumBalances(LedgerOf(block), Addresses) = 11

-----------------------------------------------------------------------------
(* Chains built with any number of candidates and any natural_rate         *)

\* the most transactions offered to one build
MaxOffered == 3

\* natural_rate values a caller passes, in thousandths: 0.618, 1.0 and 2.0
ChainRates == {DefaultNaturalRate, 1000, 2000}

\* n transfers of one unit from ALICE to CAROL, with the nonces ALICE's
\* account expects next
Offer(n) ==
    [i \in 1..n |->
        Transaction(ALICE, CAROL, 1, 0,
                    storage[get_field(block, "accounts_hash")][ALICE].nonce + i - 1)]

\* the largest natural_rate of the builds behind the block in hand
PeakRate == IF last.op = "build" THEN last.peak_rate ELSE 0

\* Block.build(block, Offer(n), validator_pk=VALIDATOR, natural_rate=...),
\* on the block the last build returned
BuildOffered ==
    /\ last.op = "build" => last.ok
    /\ block # None
    /\ get_field(block, "number") < MaxChain
    /\ \E n \in 0..MaxOffered, natural_rate \in ChainRates :
          LET transactions == IF HasField(block, "transactions_count")
                              THEN Offer(n) ELSE <<>>
              r == build(storage, block, transactions, VALIDATOR, natural_rate)
          IN  /\ last' = [op |-> "build", ok |-> r.ok, err |-> r.err,
                          previous_block |-> block,
                          transactions |-> transactions,
                          natural_rate |-> natural_rate,
                          peak_rate |-> IF natural_rate > PeakRate
                                        THEN natural_rate ELSE PeakRate]
              /\ block' = IF r.ok THEN r.block ELSE block
              /\ storage' = r.st

NextCapacity ==
    \/ Genesis
    \/ BuildOffered

SpecCapacity == InitBuild /\ [][NextCapacity]_vars

RECURSIVE FirstLeaves(_)
\* the fields of the first block of the chain that leaves belongs to: the
\* block the builds started from
FirstLeaves(leaves) ==
    IF int_from_bytes(leaves.number) <= 1 THEN leaves
    ELSE FirstLeaves(leaves.prev_block_hash.leaves)

\* max(1, transaction_limit, transactions_count) of the first block
FirstCapacity ==
    LET first == FirstLeaves(block.leaves)
        limit == int_from_bytes(first.transaction_limit)
        count == first.transactions_count
    IN  IF limit >= count /\ limit >= 1 THEN limit
        ELSE IF count >= 1 THEN count ELSE 1

\* the block in hand stays within the capacity of the first block
WithinFirstCapacity ==
    (block # None /\ HasField(block, "transactions_count")) =>
       /\ get_field(block, "transaction_limit") <= FirstCapacity
       /\ get_field(block, "transactions_count") <= FirstCapacity

\* C27 as stated: in any chain produced by repeated Block.build from a first
\* block with transaction_limit <= 1 and transactions_count <= 1, every block
\* has transactions_count <= 1 and transaction_limit <= 1, however many
\* candidates each build is offered; no block's limit exceeds the maximum of
\* 1 and the first block's limit and count.
C27_CapacityBound == WithinFirstCapacity

\* C27, amended: the bound holds along chains whose builds are all given a
\* natural_rate of at most 1.
C27_CapacityBoundDamped == PeakRate <= 1000 => WithinFirstCapacity

\* the second build on a first block of limit 1 and count 1 was offered
\* three transactions at natural_rate 1.0 and processed one
C27_Witness ==
    /\ BuiltBlock
    /\ PeakRate = 1000
    /\ get_field(block, "number") = 3
    /\ FirstCapacity = 1
    /\ Len(last.transactions) = 3
    /\ get_field(block, "transactions_count") = 1
    /\ get_field(block, "transaction_limit") = 1

-----------------------------------------------------------------------------
(* Signing a block: the encode, sign, encode again steps of                *)
(* create_genesis_block, on a block in hand                                *)

\* the body fields of the blocks that get signed
UnsignedBlocks ==
    {[NewBlockObject EXCEPT
        !.number = n,
        !.timestamp = ts,
        !.delay_difficulty = d,
        !.accounts_hash = a,
        !.validator_public_key = pk,
        !.signature = EMPTY] :
     n \in 0..MaxNumber, ts \in 0..MaxTimestamp, d \in 0..MaxNumber,
     a \in {None, TAMPERED}, pk \in {None, VALIDATOR}}

InitSign ==
    /\ block \in UnsignedBlocks
    /\ storage = EmptyStorage
    /\ last = [op |-> "init"]

\* block.to_atom(); block.signature = secret.sign(block.body_hash);
\* block_hash, _ = block.to_atom(): first_id and block_id are the ids the
\* two calls return, first_type_id and type_id the ids of their type atoms
SignAndEncode ==
    \E validator_secret_key \in SecretKeys :
        LET first == to_atom(block)
            encoded == [block EXCEPT !.body_hash = BodyHash(block)]
            signed == [encoded EXCEPT
                         !.signature = Sign(validator_secret_key,
                                            encoded.body_hash)]
            second == to_atom(signed)
        IN  /\ block' = [signed EXCEPT !.body_hash = BodyHash(signed)]
            /\ last' = [op |-> "sign",
                        validator_secret_key |-> validator_secret_key,
                        signature_before |-> block.signature,
                        body_hash_signed |-> encoded.body_hash,
                        first_id |-> first.block_id,
                        block_id |-> second.block_id,
                        first_type_id |-> object_id(TypeAtom(encoded)),
                        type_id |-> object_id(TypeAtom(signed))]
            /\ UNCHANGED storage

NextSign == SignAndEncode

SpecSign == InitSign /\ [][NextSign]_vars

\* the block in hand has just been signed and encoded again
JustSigned == last.op = "sign"

\* signing and encoding again leaves body_hash as it was signed, and the
\* stored signature verifies over it
BodyHashStable ==
    JustSigned =>
        /\ block.body_hash = last.body_hash_signed
        /\ Verifies(PublicKey(last.validator_secret_key), block.signature,
                    block.body_hash)

\* C28: signing stability.  After body_hash is signed, the signature stored
\* and to_atom called again, body_hash is the hash that was signed, the
\* stored signature verifies over it, and the block id to_atom returns for
\* the re-encoded block differs from the one it returned before a different
\* signature was stored.
C28_SigningStability ==
    /\ BodyHashStable
    /\ JustSigned /\ block.signature # last.signature_before
          => last.block_id # last.first_id

-----------------------------------------------------------------------------
(* Storage requests between nodes: communication/handlers/storage_request  *)
(* and the dispatch loop of communication/setup.py.  A node is             *)
(* [addresses, storage_index, incoming_queue, outgoing_queue]; its relay   *)
(* key and its UDP address are fixed when it starts.                       *)

\* a ^ b on two bytes
ByteXor(a, b) ==
    LET bit(x, i) == (x \div (2 ^ i)) % 2
        odd(i) == (bit(a, i) + bit(b, i)) % 2
    IN  odd(0) + 2 * odd(1) + 4 * odd(2) + 8 * odd(3) + 16 * odd(4)
        + 32 * odd(5) + 64 * odd(6) + 128 * odd(7)

\* xor_distance(target, key) of two ids of 32 equal bytes, counted in units
\* of 0x0101...01: the big-endian integer of 32 bytes x is x times that unit
xor_distance(target, key) == ByteXor(target.byte, key.byte)

\* closest_distance < self_distance is not asked
CloserOrAsFar(closest_distance, self_distance) == closest_distance <= self_distance

\* closest_distance < self_distance
Closer(closest_distance, self_distance) == closest_distance < self_distance

\* the nodes of the network
NetNodes == 1 .. 3

\* the raw bytes of the relay public key of node n
RelayKey(n) == Fill32(2 ^ (n - 1))

\* the (host, port) the datagrams of node n come from and go to
NodeAddr(n) == [host |-> n, port |-> 7373]

\* an address no node of the network has
StrangerAddr == [host |-> 9, port |-> 7373]

\* Peer: public_key_bytes and address of node n
PeerOf(n) == [public_key_bytes |-> RelayKey(n), address |-> NodeAddr(n)]

\* a payload: the bytes head followed by the bytes provider
Payload(head, provider) == [k |-> "payload", head |-> head, provider |-> provider]

\* len(payload)
PayloadLen(payload) == BLen(payload.head) + BLen(payload.provider)

\* Message(topic=STORAGE_REQUEST, content=payload)
StorageRequest(content) == [topic |-> "STORAGE_REQUEST", content |-> content]

\* message.to_bytes()
Message_to_bytes(message) == [k |-> "wire", message |-> message]

\* Message.from_bytes(data)
Message_from_bytes(data) == data.message

\* str whitespace, which strip() removes at both ends
Whitespace == (9 .. 13) \cup (28 .. 32)

\* provider_bytes.decode("utf-8") of bytes below 0x80 or 0xFF: the same
\* code points, UnicodeDecodeError on 0xFF
DecodesAsUtf8(provider) == \A i \in 1 .. Len(provider.v) : provider.v[i] < 128

\* provider_str.strip()
Strip(s) ==
    LET kept == {i \in 1 .. Len(s) : s[i] \notin Whitespace}
        lo == CHOOSE i \in kept : \A j \in kept : i <= j
        hi == CHOOSE i \in kept : \A j \in kept : j <= i
    IN  IF kept = {} THEN <<>> ELSE SubSeq(s, lo, hi)

\* node.addresses.get(address_key)
addresses_get(addresses, address_key) ==
    IF address_key \in DOMAIN addresses THEN addresses[address_key] ELSE None

\* the handler returns without a trace
Dropped(nd, why) == [outcome |-> "drop", why |-> why, node |-> nd]

\* handle_storage_request(node, addr, message) at node n, where
\* closest_peer is what node.peer_route.closest_peer_for_hash returns
handle_storage_request(nd, n, addr, message, closest_peer) ==
    LET payload == message.content
        atom_id == payload.head
        provider_bytes == payload.provider
        sender_key_bytes == addresses_get(nd.addresses, addr)
        self_distance == xor_distance(atom_id, RelayKey(n))
    IN  IF PayloadLen(payload) < 32 THEN Dropped(nd, "short payload")
        ELSE IF provider_bytes = EMPTY THEN Dropped(nd, "no provider")
        ELSE IF ~DecodesAsUtf8(provider_bytes) THEN Dropped(nd, "UnicodeDecodeError")
        ELSE IF sender_key_bytes = None THEN Dropped(nd, "unknown sender")
        ELSE IF /\ closest_peer # None
                /\ closest_peer.public_key_bytes # sender_key_bytes
                /\ Closer(xor_distance(atom_id, closest_peer.public_key_bytes),
                          self_distance)
                /\ closest_peer.address # None
                /\ closest_peer.address # addr
        THEN [outcome |-> "forward", why |-> "",
              node |-> [nd EXCEPT !.outgoing_queue =
                          Append(@, <<Message_to_bytes(message),
                                      closest_peer.address>>)]]
        ELSE [outcome |-> "record", why |-> "",
              node |-> [nd EXCEPT !.storage_index =
                          StorageSet(@, atom_id, Strip(provider_bytes.v))]]


-----------------------------------------------------------------------------
(* A network of nodes that pass storage requests on: storage holds the     *)
(* nodes, block the tally of the requests sent and of the nodes that       *)
(* forwarded one, last the step just taken                                 *)

\* the requests that enter the network
MaxRequests == 1

\* an atom id nearest to node 3, then 2, then 1, and one nearest to node 2
NetAtoms == {Fill32(7), Fill32(3)}

\* well-formed payloads, one with whitespace around the provider, and the
\* malformed ones: too short, no provider, a provider that is not UTF-8
Contents ==
    {Payload(a, Bytes(<<97>>)) : a \in NetAtoms}
    \cup {Payload(Fill32(3), Bytes(<<32, 97, 10>>)),
          Payload(Bytes(<<1>>), EMPTY),
          Payload(Fill32(7), EMPTY),
          Payload(Fill32(7), Bytes(<<255>>))}

\* node.peers, node.addresses = {}, {} and empty queues
NewNode ==
    [addresses |-> EmptyStorage, storage_index |-> EmptyStorage,
     incoming_queue |-> <<>>, outgoing_queue |-> <<>>]

InitNetwork ==
    /\ storage = [n \in NetNodes |-> NewNode]
    /\ block = [sent |-> 0, forwarders |-> {}]
    /\ last = [op |-> "init"]

\* nodes n and m exchange handshakes: each learns the key of the other
Handshake(n, m) ==
    /\ n < m
    /\ NodeAddr(m) \notin DOMAIN storage[n].addresses
    /\ storage' = [storage EXCEPT
                     ![n].addresses = StorageSet(@, NodeAddr(m), RelayKey(m)),
                     ![m].addresses = StorageSet(@, NodeAddr(n), RelayKey(n))]
    /\ last' = [op |-> "handshake"]
    /\ UNCHANGED block

\* data, addr = node.incoming_socket.recvfrom(4096);
\* node.incoming_queue.put((data, addr)): a request sent to node n from the
\* address of another node or of a stranger
SendRequest(n) ==
    /\ block.sent < MaxRequests
    /\ \E content \in Contents,
          addr \in {NodeAddr(m) : m \in NetNodes \ {n}} \cup {StrangerAddr} :
          /\ storage' = [storage EXCEPT ![n].incoming_queue =
                            Append(@, <<Message_to_bytes(StorageRequest(content)),
                                        addr>>)]
          /\ last' = [op |-> "send"]
    /\ block' = [block EXCEPT !.sent = @ + 1]

\* the node that datagrams to target_addr reach
NodeAt(target_addr) == CHOOSE m \in NetNodes : NodeAddr(m) = target_addr

\* the datagram at the head of the outgoing queue of node n reaches the
\* node at its target address
Deliver(n) ==
    /\ storage[n].outgoing_queue # <<>>
    /\ LET item == Head(storage[n].outgoing_queue)
           m == NodeAt(item[2])
       IN  storage' = [storage EXCEPT
                         ![n].outgoing_queue = Tail(@),
                         ![m].incoming_queue = Append(@, <<item[1], NodeAddr(n)>>)]
    /\ last' = [op |-> "deliver"]
    /\ UNCHANGED block

\* the datagram at the head of the outgoing queue of node n is lost
Lose(n) ==
    /\ storage[n].outgoing_queue # <<>>
    /\ storage' = [storage EXCEPT ![n].outgoing_queue = Tail(@)]
    /\ last' = [op |-> "lose"]
    /\ UNCHANGED block

\* one turn of process_incoming_messages at node n: the head of the
\* incoming queue is decoded and handed to handle_storage_request
ProcessIncoming(n) ==
    /\ storage[n].incoming_queue # <<>>
    /\ \E closest_peer \in {None} \cup {PeerOf(m) : m \in NetNodes} :
          LET item == Head(storage[n].incoming_queue)
              message == Message_from_bytes(item[1])
              taken == [storage[n] EXCEPT !.incoming_queue = Tail(@)]
              r == handle_storage_request(taken, n, item[2], message,
                                          closest_peer)
          IN  /\ storage' = [storage EXCEPT ![n] = r.node]
              /\ block' = [block EXCEPT !.forwarders =
                              IF r.outcome = "forward" THEN @ \cup {n} ELSE @]
              /\ last' = [op |-> "handle", node |-> n, data |-> item[1],
                          addr |-> item[2], closest_peer |-> closest_peer,
                          outcome |-> r.outcome, why |-> r.why,
                          before |-> taken]

NextNetwork ==
    \/ \E n \in NetNodes, m \in NetNodes : Handshake(n, m)
    \/ \E n \in NetNodes : SendRequest(n)
    \/ \E n \in NetNodes : Deliver(n)
    \/ \E n \in NetNodes : Lose(n)
    \/ \E n \in NetNodes : ProcessIncoming(n)

SpecNetwork == InitNetwork /\ [][NextNetwork]_vars

\* every node keeps taking from its incoming queue, and every datagram
\* queued for sending is in time delivered or lost
SpecNetworkLive ==
    /\ SpecNetwork
    /\ \A n \in NetNodes : WF_vars(ProcessIncoming(n))
    /\ \A n \in NetNodes : WF_vars(Deliver(n) \/ Lose(n))

\* the payload is one the handler reads an atom id and a provider from
WellFormedPayload(payload) ==
    /\ PayloadLen(payload) >= 32
    /\ payload.provider # EMPTY
    /\ DecodesAsUtf8(payload.provider)

\* what the handler just did at a node is one of drop, forward, record, and
\* no two of them
OneOfThree ==
    last.op = "handle" =>
    LET now == storage[last.node]
        before == last.before
        payload == last.data.message.content
        peer == last.closest_peer
        known == last.addr \in DOMAIN before.addresses
        forwarded == Append(before.outgoing_queue, <<last.data, peer.address>>)
        recorded == StorageSet(before.storage_index, payload.head,
                               Strip(payload.provider.v))
    IN  /\ now.addresses = before.addresses
        /\ now.incoming_queue = before.incoming_queue
        /\ last.outcome \in {"drop", "forward", "record"}
        /\ last.outcome = "drop" <=> ~WellFormedPayload(payload) \/ ~known
        /\ last.outcome = "drop" =>
              /\ now.outgoing_queue = before.outgoing_queue
              /\ now.storage_index = before.storage_index
        /\ last.outcome = "forward" =>
              /\ peer # None
              /\ now.outgoing_queue = forwarded
              /\ now.storage_index = before.storage_index
              /\ peer.public_key_bytes # before.addresses[last.addr]
              /\ peer.address # last.addr
              /\ xor_distance(payload.head, peer.public_key_bytes)
                   < xor_distance(payload.head, RelayKey(last.node))
        /\ last.outcome = "record" =>
              /\ now.outgoing_queue = before.outgoing_queue
              /\ now.storage_index = recorded

\* no request is waiting in a queue of any node
Quiet ==
    \A n \in NetNodes :
        storage[n].incoming_queue = <<>> /\ storage[n].outgoing_queue = <<>>

====
